---- MODULE Spec2Model ----
(***************************************************************************)
(* Media ingest pipeline of the volleyball analytics backend:              *)
(*   - the job state store        (backend/app/services/ingest_state.py)   *)
(*   - the ingest worker and the task registry                             *)
(*                                (backend/app/services/ingest_worker.py)  *)
(* Store operations are synchronous and run under one threading.Lock, so   *)
(* each is one atomic action. Worker coroutines run on one asyncio event   *)
(* loop: a coroutine runs without interruption until it awaits something   *)
(* that is not ready (here: a subprocess).                                 *)
(***************************************************************************)
EXTENDS Integers, Sequences, FiniteSets, TLC

VARIABLES
    jobs,       \* ingest_state._jobs      : upload id -> job record (a dict)
    job_meta,   \* ingest_state._job_meta  : upload id -> meta record
    disk,       \* content of INDEX_PATH   : None (no file) or <<snapshot>>
    originals,  \* names of the files in ORIGINAL_DIR
    clock,      \* wall clock read by _now()
    workers,    \* asyncio.Task objects running run_ingest, by task number
    tasks,      \* ingest_worker._tasks    : upload id -> task number
    req,        \* the start request the event loop is currently serving
    errored,    \* history: upload ids whose job has had status error
    call,       \* the last call of the store or of the router, and its outcome
    persist,    \* _persist_locked in progress: its step and its temporary file
    upload_store, \* routers/ingest._upload_store : upload id -> status payload
    homography, \* the arguments of the last compute_h call and what came of it
    lock,       \* ingest_state._lock      : 0 (free) or the thread that holds it
    threads,    \* threads calling the store: the call each is in and its step
    serial,     \* history: the store had the calls run one by one, in lock order
    proc        \* a _run_command call: the subprocess, its pipes and the drains

\* the store's callers on other threads, and the command runner
conc == <<lock, threads, serial, proc>>

\* the state outside the pipeline, left alone by its steps
aux == <<call, persist, upload_store, homography, conc>>

vars == <<jobs, job_meta, disk, originals, clock, workers, tasks, req, errored, aux>>

----------------------------------------------------------------------------
(* Bounds of the model *)

MaxTime == 1
MaxTasks == 2
DumpChunks == 2
MaxCoord == 2
MaxThreads == 2
MaxLines == 42

Ids == {"u1"}
Extensions == {".mp4"}

----------------------------------------------------------------------------
(* Python values: Optional[x] is None or <<x>> *)

None == <<>>
Some(x) == <<x>>

\* truthiness of an Optional[str]: None and "" are falsy
Truthy(v) == v # None /\ v # Some("")

\* dict.get(key) of a dict whose values are Optional: None when absent
Get(d, k) == IF k \in DOMAIN d THEN d[k] ELSE None

\* dict.get(key) of a dict whose values are never None
GetSome(d, k) == IF k \in DOMAIN d THEN Some(d[k]) ELSE None

\* dict.update / item-wise assignment
Merge(d, upd) == upd @@ d

\* dict with one key removed / one key set
Without(d, k) == [x \in (DOMAIN d) \ {k} |-> d[x]]
With(d, k, v) == (k :> v) @@ d

EmptyDict == [x \in {} |-> None]

----------------------------------------------------------------------------
(* ingest_state.py *)

ASSET_KEYS == {"original_url", "mezzanine_url", "proxy_url", "thumbs_glob", "keyframes_csv"}

\* datetime.now(timezone.utc).isoformat()
Now == Some(clock)

\* mutant: the original doubles as the proxy
DefaultAssets_ProxyIsOriginal(original_url) ==
    [original_url  |-> original_url,
     mezzanine_url |-> None,
     proxy_url     |-> original_url,
     thumbs_glob   |-> None,
     keyframes_csv |-> None]
DefaultAssets(original_url) ==
    [original_url  |-> original_url,
     mezzanine_url |-> None,
     proxy_url     |-> None,
     thumbs_glob   |-> None,
     keyframes_csv |-> None]

\* assets: None or <<dict>> (an Optional[Dict]); meta: the _job_meta map
NormalizeAssets(meta, upload_id, assets) ==
    LET m == IF upload_id \in DOMAIN meta THEN meta[upload_id] ELSE EmptyDict
        a == IF assets = None THEN EmptyDict ELSE assets[1]
        fromAssets == Get(a, "original_url")
        original_url == IF Truthy(fromAssets) THEN fromAssets ELSE GetSome(m, "original_url")
    IN  Merge(DefaultAssets(original_url), a)

\* the snapshot _persist_locked dumps as JSON and renames over INDEX_PATH
Snapshot(j, m) == [jobs |-> j, meta |-> m]

\* Content of a file: <<snapshot>> is the complete JSON text of a snapshot;
\* anything else is a pair <<kind, detail>>. The dump reaches the file in
\* DumpChunks writes; the first n of them are a proper prefix of the text.
Complete(f) == Len(f) = 1
FileContent(snapshot, n) ==
    IF n = DumpChunks THEN <<snapshot>>
    ELSE <<"truncated", [snapshot |-> snapshot, chunks |-> n]>>

\* mutant: the snapshot is taken before the in-memory change
PersistLocked_Stale(j, m) == Some(Snapshot(jobs, job_meta))
PersistLocked(j, m) == Some(Snapshot(j, m))

NewJob(upload_id, original_url) ==
    [upload_id  |-> upload_id,
     status     |-> "queued",
     stage      |-> "queued",
     progress   |-> 0,
     message    |-> None,
     assets     |-> DefaultAssets(Some(original_url)),
     started_at |-> None,
     updated_at |-> Now]

\* create_job: the maps after the call
\* mutant: the new record replaces the whole map
CreateJobs_Replaces(upload_id, original_url) == upload_id :> NewJob(upload_id, original_url)
CreateJobs(upload_id, original_url) == With(jobs, upload_id, NewJob(upload_id, original_url))
CreateMeta(upload_id, original_path, original_url) ==
    With(job_meta, upload_id,
         [original_path |-> original_path, original_url |-> original_url])

\* the asset map update_job leaves in the job
\* mutant: the passed map replaces the stored one instead of being merged into it
UpdatedAssets_Replaces(upload_id, job, fields) ==
    LET upd == IF "assets" \in DOMAIN fields THEN fields.assets ELSE None
    IN  IF upd # None
        THEN [k \in ASSET_KEYS |-> IF k \in DOMAIN upd[1] THEN upd[1][k] ELSE None]
        ELSE NormalizeAssets(job_meta, upload_id, GetSome(job, "assets"))
UpdatedAssets(upload_id, job, fields) ==
    LET assets == NormalizeAssets(job_meta, upload_id, GetSome(job, "assets"))
        upd    == IF "assets" \in DOMAIN fields THEN fields.assets ELSE None
    IN  IF upd # None
        THEN [k \in DOMAIN assets |->
                 IF k \in DOMAIN upd[1] /\ k \in ASSET_KEYS THEN upd[1][k] ELSE assets[k]]
        ELSE assets

\* update_job on a known id: the new job record
\* mutant: started_at is stamped by every update that is off queued
UpdatedJob_RestampsStart(upload_id, fields) ==
    LET job    == jobs[upload_id]
        plain  == [k \in (DOMAIN fields) \ {"assets"} |-> fields[k]]
        j1     == Merge(job, plain)
        j2     == [j1 EXCEPT !.assets = UpdatedAssets(upload_id, job, fields)]
        moved  == (j2.status # "" /\ j2.status # "queued")
                  \/ (j2.stage # "" /\ j2.stage # "queued")
        j3     == IF moved THEN [j2 EXCEPT !.started_at = Now] ELSE j2
    IN  [j3 EXCEPT !.updated_at = Now]
UpdatedJob(upload_id, fields) ==
    LET job    == jobs[upload_id]
        plain  == [k \in (DOMAIN fields) \ {"assets"} |-> fields[k]]
        j1     == Merge(job, plain)
        j2     == [j1 EXCEPT !.assets = UpdatedAssets(upload_id, job, fields)]
        moved  == (j2.status # "" /\ j2.status # "queued")
                  \/ (j2.stage # "" /\ j2.stage # "queued")
        j3     == IF j2.started_at = None /\ moved
                  THEN [j2 EXCEPT !.started_at = Now] ELSE j2
    IN  [j3 EXCEPT !.updated_at = Now]

\* _clone(job): the value, and the internal objects the returned one shares
\* ("none": a deep copy; "assets": the nested assets dict; "job": the dict itself)
\* mutant: dict(job), a shallow copy
Clone_Shallow(job) == [job |-> job, alias |-> "assets"]
Clone(job) == [job |-> job, alias |-> "none"]

\* get_job / get_job_meta: the value of the copy returned, or None (also for an
\* empty record, which is falsy)
get_job(upload_id) ==
    IF upload_id \in DOMAIN jobs /\ jobs[upload_id] # EmptyDict
    THEN Some(jobs[upload_id]) ELSE None
get_job_meta(upload_id) ==
    IF upload_id \in DOMAIN job_meta /\ job_meta[upload_id] # EmptyDict
    THEN Some(job_meta[upload_id]) ELSE None

\* mutant: the message is not read back
LoadedJob_DropsMessage(meta, upload_id, raw) ==
    LET updated == Get(raw, "updated_at")
    IN  [upload_id  |-> upload_id,
         status     |-> IF "status" \in DOMAIN raw THEN raw.status ELSE "queued",
         stage      |-> IF "stage" \in DOMAIN raw THEN raw.stage ELSE "queued",
         progress   |-> IF "progress" \in DOMAIN raw THEN raw.progress ELSE 0,
         message    |-> None,
         assets     |-> NormalizeAssets(meta, upload_id, GetSome(raw, "assets")),
         started_at |-> Get(raw, "started_at"),
         updated_at |-> IF updated = None THEN Now ELSE updated]

\* load_from_disk: the maps after the call, given the file content
LoadedJob(meta, upload_id, raw) ==
    LET updated == Get(raw, "updated_at")
    IN  [upload_id  |-> upload_id,
         status     |-> IF "status" \in DOMAIN raw THEN raw.status ELSE "queued",
         stage      |-> IF "stage" \in DOMAIN raw THEN raw.stage ELSE "queued",
         progress   |-> IF "progress" \in DOMAIN raw THEN raw.progress ELSE 0,
         message    |-> Get(raw, "message"),
         assets     |-> NormalizeAssets(meta, upload_id, GetSome(raw, "assets")),
         started_at |-> Get(raw, "started_at"),
         updated_at |-> IF updated = None THEN Now ELSE updated]

\* A file the store did not write is <<kind, detail>>: "unreadable" (open
\* fails with OSError), "not_utf8", "not_json", "truncated", or "json" with the
\* parsed value as detail. Where the loader tests the type of a JSON value the
\* value is tagged: a dict with its items, or a non-dict, truthy or falsy.
Dict(v) == [t |-> "dict", v |-> v]
JsonList == [t |-> "list"]
JsonNull == [t |-> "null"]
IsDict(x) == x.t = "dict"
Falsy(x) == x.t = "null"

\* INDEX_PATH.exists(), open() and json.load(): what the loader goes on with
ReadOutcome(f) ==
    IF f = None THEN "missing"
    ELSE IF Complete(f) THEN "object"
    ELSE IF f[1] \in {"unreadable", "truncated", "not_json"} THEN "ignored"
    ELSE IF f[1] = "not_utf8" THEN "UnicodeDecodeError"
    ELSE IF IsDict(f[2]) THEN "object"
    ELSE "AttributeError"

\* payload.get(name, {}) of a foreign JSON object
Section(payload, name) ==
    IF name \in DOMAIN payload.v THEN payload.v[name] ELSE Dict(EmptyDict)
\* the entries of a section that pass isinstance(entry, dict)
DictEntries(payload, name) ==
    LET sec == Section(payload, name)
    IN  IF IsDict(sec)
        THEN [u \in {x \in DOMAIN sec.v : IsDict(sec.v[x])} |-> sec.v[u].v]
        ELSE EmptyDict
\* raw_job.get("assets") is a truthy non-dict: (assets or {}).get raises
BadAssets(raw) == "assets" \in DOMAIN raw /\ ~IsDict(raw.assets) /\ ~Falsy(raw.assets)
\* the raw job with the assets as _normalize_assets takes them
Untagged(raw) ==
    IF "assets" \notin DOMAIN raw THEN raw
    ELSE IF IsDict(raw.assets) THEN [raw EXCEPT !.assets = raw.assets.v]
    ELSE Without(raw, "assets")

\* the exception load_from_disk ends with, or None
LoadException ==
    LET r == ReadOutcome(disk)
    IN  IF r \in {"UnicodeDecodeError", "AttributeError"} THEN Some(r)
        ELSE IF /\ r = "object"
                /\ ~Complete(disk)
                /\ \E u \in DOMAIN DictEntries(disk[2], "jobs") :
                       BadAssets(DictEntries(disk[2], "jobs")[u])
             THEN Some("AttributeError")
        ELSE None

\* cur_meta, cur_jobs: the maps before the call, kept when the loader returns
\* or raises before it clears them. The job entries are visited in file order
\* up to the first that raises; the foreign files here hold one entry.
LoadedMeta(cur_meta) ==
    IF ReadOutcome(disk) # "object" THEN cur_meta
    ELSE IF Complete(disk) THEN disk[1].meta
    ELSE DictEntries(disk[2], "meta")
\* mutant: the maps are cleared before the file is looked at
LoadedJobs_ClearsFirst(cur_jobs) ==
    IF ReadOutcome(disk) # "object" THEN EmptyDict
    ELSE IF Complete(disk)
    THEN [u \in DOMAIN disk[1].jobs |-> LoadedJob(disk[1].meta, u, disk[1].jobs[u])]
    ELSE LET entries == DictEntries(disk[2], "jobs")
         IN  [u \in {x \in DOMAIN entries : ~BadAssets(entries[x])} |->
                 LoadedJob(DictEntries(disk[2], "meta"), u, Untagged(entries[u]))]
LoadedJobs(cur_jobs) ==
    IF ReadOutcome(disk) # "object" THEN cur_jobs
    ELSE IF Complete(disk)
    THEN [u \in DOMAIN disk[1].jobs |-> LoadedJob(disk[1].meta, u, disk[1].jobs[u])]
    ELSE LET entries == DictEntries(disk[2], "jobs")
         IN  [u \in {x \in DOMAIN entries : ~BadAssets(entries[x])} |->
                 LoadedJob(DictEntries(disk[2], "meta"), u, Untagged(entries[u]))]

----------------------------------------------------------------------------
(* ingest_worker.py: commands, their outcomes, the error message *)

STAGE_PROGRESS ==
    [validate |-> 5, transcode_mezz |-> 60, make_proxy |-> 80, thumbs |-> 95, ready |-> 100]

\* What a finished subprocess hands back to _run_command: the exit code, the
\* non-empty stderr lines _drain_stderr kept, and (probe only) whether the
\* JSON on stdout lists a stream with codec_type video.
StderrTails == {<<>>, <<"stderr line">>, <<"stderr line", "last stderr line">>}
Outcomes == [rc : {0, 1}, stderr : StderrTails, video : BOOLEAN]

\* "\n".join(lines)
RECURSIVE Join(_)
Join(lines) ==
    IF lines = <<>> THEN ""
    ELSE IF Len(lines) = 1 THEN lines[1]
    ELSE lines[1] \o "\n" \o Join(Tail(lines))

\* lines[-n:]
Last(lines, n) ==
    IF Len(lines) <= n THEN lines ELSE SubSeq(lines, Len(lines) - n + 1, Len(lines))

\* exceptions raised inside run_ingest
CommandError(stderr) ==
    [kind |-> "CommandError", text |-> "Command failed with exit code 1", stderr |-> stderr]
NoVideoError ==
    [kind |-> "RuntimeError", text |-> "No video streams detected during validation",
     stderr |-> <<>>]
\* mutant: the unknown id is reported as a bad value
KeyError_AsValueError ==
    [kind |-> "ValueError", text |-> "upload_id", stderr |-> <<>>]
KeyError ==
    [kind |-> "KeyError", text |-> "upload_id", stderr |-> <<>>]
CancelledError ==
    [kind |-> "CancelledError", text |-> "", stderr |-> <<>>]

\* mutant: no fallback to str(exc) when the stderr tail is empty
ErrorMessage_TailOnly(exc) ==
    IF exc.kind = "CommandError" THEN Join(Last(exc.stderr, 10)) ELSE exc.text

\* the except-block's error_message
ErrorMessage(exc) ==
    IF exc.kind = "CommandError"
    THEN LET tail == Join(Last(exc.stderr, 10))
         IN  IF tail # "" THEN tail ELSE exc.text
    ELSE exc.text

build_asset_urls(upload_id) ==
    [mezzanine_url |-> "/assets/mezz/" \o upload_id \o ".mp4",
     proxy_url     |-> "/assets/proxy/" \o upload_id \o ".mp4",
     thumbs_glob   |-> "/assets/thumbs/" \o upload_id \o "/thumb_%04d.jpg",
     keyframes_csv |-> "/assets/meta/" \o upload_id \o "/keyframes.csv"]

\* the keyword arguments of run_ingest's update_job calls, in program order
\* mutant: the message of an earlier failure is kept
BeginFields_KeepsMessage ==
    [status |-> "running", stage |-> "validate", progress |-> 1]
BeginFields ==
    [status |-> "running", stage |-> "validate", progress |-> 1, message |-> None]
\* mutant: the stage after validate is skipped
AfterProbeFields_SkipsStage ==
    [status |-> "running", stage |-> "make_proxy", progress |-> STAGE_PROGRESS.validate]
AfterProbeFields ==
    [status |-> "running", stage |-> "transcode_mezz", progress |-> STAGE_PROGRESS.validate]
\* mutant: progress keyed by the stage entered, not the stage completed
AfterMezzFields_NextStageProgress(upload_id) ==
    [status |-> "running", stage |-> "make_proxy", progress |-> STAGE_PROGRESS.make_proxy,
     assets |-> Some([mezzanine_url |-> Some("/assets/mezz/" \o upload_id \o ".mp4")])]
AfterMezzFields(upload_id) ==
    [status |-> "running", stage |-> "make_proxy", progress |-> STAGE_PROGRESS.transcode_mezz,
     assets |-> Some([mezzanine_url |-> Some(build_asset_urls(upload_id).mezzanine_url)])]
AfterProxyFields(upload_id) ==
    [status |-> "running", stage |-> "thumbs", progress |-> STAGE_PROGRESS.make_proxy,
     assets |-> Some([proxy_url |-> Some(build_asset_urls(upload_id).proxy_url)])]
\* mutant: progress looked up under the wrong stage
AfterThumbsFields_WrongKey ==
    [status |-> "running", stage |-> "thumbs", progress |-> STAGE_PROGRESS.validate]
AfterThumbsFields ==
    [status |-> "running", stage |-> "thumbs", progress |-> STAGE_PROGRESS.thumbs]
\* mutant: the keyframes asset is left out of the final update
ReadyFields_NoKeyframes(upload_id) ==
    [status |-> "ready", stage |-> "ready", progress |-> STAGE_PROGRESS.ready,
     assets |-> Some([k \in {"mezzanine_url", "proxy_url", "thumbs_glob"} |->
                          Some(build_asset_urls(upload_id)[k])])]
ReadyFields(upload_id) ==
    [status |-> "ready", stage |-> "ready", progress |-> STAGE_PROGRESS.ready,
     assets |-> Some([k \in DOMAIN build_asset_urls(upload_id) |->
                          Some(build_asset_urls(upload_id)[k])])]
\* mutant: the error update does not carry the progress reached
ErrorFields_ResetsProgress(progress, error_message) ==
    [status |-> "error", stage |-> "error", progress |-> 0,
     message |-> Some(error_message)]
ErrorFields(progress, error_message) ==
    [status |-> "error", stage |-> "error", progress |-> progress,
     message |-> Some(error_message)]

----------------------------------------------------------------------------
(* State after import: load_from_disk() found no snapshot file, no task *)

TaskIds == 1..MaxTasks

FreeSlot ==
    [upload_id |-> "", pc |-> "free", progress |-> 0, exits |-> {}, exc |-> None,
     cleanup |-> FALSE]
NoReq == [upload_id |-> "", pc |-> "idle", result |-> ""]
NoCall == [op |-> "", upload_id |-> "", exc |-> None, ret |-> None]
NoHomography == [pc |-> "none"]
NoPersist == [pc |-> "idle", tmp |-> None, before |-> None]

\* the threads that call the store; none is in a call
Threads == 1..MaxThreads
IdleThread == [pc |-> "idle", op |-> "", upload_id |-> "", fields |-> <<>>, expect |-> NoCall]
NoSerial == [jobs |-> <<>>, job_meta |-> <<>>, disk |-> <<>>]
NoProc == [pc |-> "none"]

\* the state after construction, the homography call aside
InitProgram ==
    /\ jobs = EmptyDict
    /\ job_meta = EmptyDict
    /\ disk = None
    /\ originals = {}
    /\ clock = 0
    /\ workers = [t \in TaskIds |-> FreeSlot]
    /\ tasks = EmptyDict
    /\ req = NoReq
    /\ errored = {}
    /\ call = NoCall
    /\ persist = NoPersist
    /\ upload_store = EmptyDict
    /\ lock = 0
    /\ threads = [th \in Threads |-> IdleThread]
    /\ serial = NoSerial
    /\ proc = NoProc

Init == InitProgram /\ homography = NoHomography

\* the event loop runs one coroutine at a time: other callbacks wait while a
\* request handler that has not suspended is still running
LoopIdle == req = NoReq

----------------------------------------------------------------------------
(* routers/ingest.py: the upload and status routes and their own store *)

\* mutant: text files are allowed too
ALLOWED_EXTENSIONS_WithTxt ==
    {".mp4", ".mov", ".mkv", ".webm", ".avi", ".mts", ".m2ts", ".txt"}
ALLOWED_EXTENSIONS == {".mp4", ".mov", ".mkv", ".webm", ".avi", ".mts", ".m2ts"}
\* sorted(ALLOWED_EXTENSIONS)
SortedExtensions == <<".avi", ".m2ts", ".mkv", ".mov", ".mp4", ".mts", ".webm">>

HEALTH_UPLOAD_ID == "healthcheck"
DEFAULT_STAGE == "ready"
STAGE_NORMALIZATION ==
    [ready |-> "ready", validate |-> "validate", validation |-> "validate",
     validating |-> "validate", queued |-> "validate", proxy |-> "make_proxy",
     make_proxy |-> "make_proxy", mezzanine |-> "transcode_mezz",
     transcode |-> "transcode_mezz", transcode_mezz |-> "transcode_mezz",
     thumbs |-> "thumbs", thumbnails |-> "thumbs", thumbnail |-> "thumbs",
     error |-> "error"]

EmptyAssets == [original_url |-> None, proxy_url |-> None, mezzanine_url |-> None]

\* the stage names passed are lower case already
NormalizeStage(stage) ==
    IF stage = "" THEN DEFAULT_STAGE
    ELSE IF stage \in DOMAIN STAGE_NORMALIZATION THEN STAGE_NORMALIZATION[stage]
    ELSE "error"

ClampProgress(value) ==
    LET capped == IF value < 100 THEN value ELSE 100
    IN  IF capped > 0 THEN capped ELSE 0

\* message: None or <<text>>; the key is set only for a non-empty text
BuildStatusPayload(status, stage, progress, assets, message) ==
    LET payload == [status   |-> status,
                    stage    |-> NormalizeStage(stage),
                    progress |-> ClampProgress(progress),
                    assets   |-> [original_url  |-> Get(assets, "original_url"),
                                  proxy_url     |-> Get(assets, "proxy_url"),
                                  mezzanine_url |-> Get(assets, "mezzanine_url")]]
    IN  IF Truthy(message) THEN With(payload, "message", message[1]) ELSE payload

ClonePayload(payload) ==
    LET cloned == [status   |-> payload.status,
                   stage    |-> payload.stage,
                   progress |-> payload.progress,
                   assets   |-> [original_url  |-> Get(payload.assets, "original_url"),
                                 proxy_url     |-> Get(payload.assets, "proxy_url"),
                                 mezzanine_url |-> Get(payload.assets, "mezzanine_url")]]
    IN  IF "message" \in DOMAIN payload THEN With(cloned, "message", payload.message)
        ELSE cloned

\* extension: None or <<suffix>>, the suffix one of ALLOWED_EXTENSIONS (with its dot)
AssetUrls(upload_id, extension) ==
    IF ~Truthy(extension) THEN EmptyAssets
    ELSE LET asset_path == "/assets/original/" \o upload_id \o extension[1]
         IN  [original_url |-> Some(asset_path), proxy_url |-> Some(asset_path),
              mezzanine_url |-> None]

LocateExistingExtension(upload_id) ==
    LET found == {i \in 1..Len(SortedExtensions) :
                     (upload_id \o SortedExtensions[i]) \in originals}
    IN  IF found = {} THEN None
        ELSE Some(SortedExtensions[CHOOSE i \in found : \A j \in found : i <= j])

\* some file of ORIGINAL_DIR is the original of this upload id
HasOriginal(upload_id) == LocateExistingExtension(upload_id) # None

\* mutant: every id passes for a UUID
IsUuidLike_Always(value) == TRUE
\* UUID(value) parses: the ids uuid4 hands out do, the other ids here do not
IsUuidLike(value) == value \in Ids

ReadyPayload(assets) == BuildStatusPayload("ready", "ready", 100, assets, None)

\* mutant: the health entry is never seeded
EnsureHealthSeed_Never(store) == store
\* _ensure_health_seed: the store after it
EnsureHealthSeed(store) ==
    IF HEALTH_UPLOAD_ID \in DOMAIN store THEN store
    ELSE With(store, HEALTH_UPLOAD_ID, ClonePayload(ReadyPayload(EmptyAssets)))

\* _resolve_status: the payload returned, and the store after it
ResolveStatus(store, upload_id) ==
    LET extension == LocateExistingExtension(upload_id)
    IN  IF upload_id \in DOMAIN store THEN ClonePayload(store[upload_id])
        ELSE IF Truthy(extension)
        THEN ClonePayload(ReadyPayload(AssetUrls(upload_id, extension)))
        ELSE IF upload_id = HEALTH_UPLOAD_ID \/ IsUuidLike(upload_id)
        THEN BuildStatusPayload("queued", "validate", 0, EmptyAssets, None)
        ELSE BuildStatusPayload("error", "error", 0, EmptyAssets,
                                Some("Unknown upload_id '" \o upload_id \o "'"))
ResolvedStore(store, upload_id) ==
    LET extension == LocateExistingExtension(upload_id)
    IN  IF upload_id \notin DOMAIN store /\ Truthy(extension)
        THEN With(store, upload_id, ClonePayload(ReadyPayload(AssetUrls(upload_id, extension))))
        ELSE store

----------------------------------------------------------------------------
(* Store operations as steps of the program *)

\* time passes
Tick ==
    /\ clock < MaxTime
    /\ clock' = clock + 1
    /\ UNCHANGED <<jobs, job_meta, disk, originals, workers, tasks, req, errored, aux>>

\* create_job(upload_id, original_path, original_url)
create_job(upload_id, original_path, original_url) ==
    /\ jobs' = CreateJobs(upload_id, original_url)
    /\ job_meta' = CreateMeta(upload_id, original_path, original_url)
    /\ disk' = PersistLocked(jobs', job_meta')

\* update_job(upload_id, **fields) on a known id
update_job(upload_id, fields) ==
    /\ upload_id \in DOMAIN jobs
    /\ jobs' = With(jobs, upload_id, UpdatedJob(upload_id, fields))
    /\ job_meta' = job_meta
    /\ disk' = PersistLocked(jobs', job_meta')
    /\ errored' = IF jobs'[upload_id].status = "error"
                  THEN errored \cup {upload_id} ELSE errored

\* mutant: _job_meta.clear() is missing
reset_state_KeepsMeta ==
    /\ jobs' = EmptyDict
    /\ job_meta' = job_meta
    /\ disk' = PersistLocked(jobs', job_meta')

\* reset_state()
reset_state ==
    /\ jobs' = EmptyDict
    /\ job_meta' = EmptyDict
    /\ disk' = PersistLocked(jobs', job_meta')

\* load_from_disk()
load_from_disk(cur_jobs, cur_meta) ==
    /\ jobs' = LoadedJobs(cur_jobs)
    /\ job_meta' = LoadedMeta(cur_meta)
    /\ disk' = disk

\* An upload: the file is stored under a fresh uuid4 plus its extension and the
\* job is created for it.
Upload(upload_id, ext) ==
    /\ LoopIdle
    /\ ~HasOriginal(upload_id)
    /\ upload_id \notin DOMAIN jobs
    /\ originals' = originals \cup {upload_id \o ext}
    /\ create_job(upload_id, "/data/original/" \o upload_id \o ext,
                  "/assets/original/" \o upload_id \o ext)
    /\ UNCHANGED <<clock, workers, tasks, req, errored, aux>>

----------------------------------------------------------------------------
(* run_ingest(upload_id, src_path, ext): one asyncio task per invocation.  *)
(* pc is the await the coroutine is suspended at: "start" (created, not    *)
(* yet run), then the command it waits for, then done/failed/cancelled.    *)

Awaiting == {"probe", "mezz", "proxy", "thumbs", "keyframes"}
Finished == {"done", "failed", "cancelled"}

TaskDone(t) == workers[t].pc \in Finished

\* mutant: the exception is re-raised without being recorded
Raise_Unrecorded(t, exc, exits) ==
    /\ workers' = [workers EXCEPT ![t] =
           [@ EXCEPT !.pc = "failed", !.exc = Some(exc.kind), !.exits = exits]]
    /\ UNCHANGED <<jobs, job_meta, disk, errored>>
\* the except Exception block: record the error on the job and re-raise
Raise(t, exc, exits) ==
    LET w == workers[t]
    IN  IF w.upload_id \in DOMAIN jobs
        THEN /\ update_job(w.upload_id, ErrorFields(w.progress, ErrorMessage(exc)))
             /\ workers' = [workers EXCEPT ![t] =
                    [w EXCEPT !.pc = "failed", !.exc = Some(exc.kind), !.exits = exits]]
        ELSE \* update_job raises KeyError inside the handler
             /\ workers' = [workers EXCEPT ![t] =
                    [w EXCEPT !.pc = "failed", !.exc = Some(KeyError.kind), !.exits = exits]]
             /\ UNCHANGED <<homography, conc, jobs, job_meta, disk, errored>>

\* a stage went well: the next update_job of the try block, then the next await
\* mutant: the update of an unknown id is skipped and the stage goes on
Proceed_SpawnsAnyway(t, pc, fields, exits) ==
    LET w == workers[t]
    IN  IF w.upload_id \in DOMAIN jobs
        THEN /\ update_job(w.upload_id, fields)
             /\ workers' = [workers EXCEPT ![t] =
                    [w EXCEPT !.pc = pc, !.progress = fields.progress, !.exits = exits]]
        ELSE /\ workers' = [workers EXCEPT ![t] =
                    [w EXCEPT !.pc = pc, !.progress = fields.progress, !.exits = exits]]
             /\ UNCHANGED <<homography, conc, jobs, job_meta, disk, errored>>
Proceed(t, pc, fields, exits) ==
    LET w == workers[t]
    IN  IF w.upload_id \in DOMAIN jobs
        THEN /\ update_job(w.upload_id, fields)
             /\ workers' = [workers EXCEPT ![t] =
                    [w EXCEPT !.pc = pc, !.progress = fields.progress, !.exits = exits]]
        ELSE Raise(t, KeyError, exits)

\* lines 144-162: first update, then the probe is spawned
Begin(t) ==
    /\ LoopIdle
    /\ workers[t].pc = "start"
    /\ Proceed(t, "probe", BeginFields, {})
    /\ UNCHANGED <<originals, clock, tasks, req, aux>>

\* lines 162-215: the probe exited
ProbeExit(t) ==
    /\ LoopIdle
    /\ workers[t].pc = "probe"
    /\ \E out \in Outcomes :
          IF out.rc # 0 THEN Raise(t, CommandError(out.stderr), workers[t].exits)
          ELSE IF ~out.video THEN Raise(t, NoVideoError, workers[t].exits \cup {"probe"})
          ELSE Proceed(t, "mezz", AfterProbeFields, workers[t].exits \cup {"probe"})
    /\ UNCHANGED <<originals, clock, tasks, req, aux>>

\* lines 215-245: the mezzanine transcode exited
MezzExit(t) ==
    /\ LoopIdle
    /\ workers[t].pc = "mezz"
    /\ \E out \in Outcomes :
          IF out.rc # 0 THEN Raise(t, CommandError(out.stderr), workers[t].exits)
          ELSE Proceed(t, "proxy", AfterMezzFields(workers[t].upload_id),
                       workers[t].exits \cup {"mezz"})
    /\ UNCHANGED <<originals, clock, tasks, req, aux>>

\* lines 245-265: the proxy transcode exited
ProxyExit(t) ==
    /\ LoopIdle
    /\ workers[t].pc = "proxy"
    /\ \E out \in Outcomes :
          IF out.rc # 0 THEN Raise(t, CommandError(out.stderr), workers[t].exits)
          ELSE Proceed(t, "thumbs", AfterProxyFields(workers[t].upload_id),
                       workers[t].exits \cup {"proxy"})
    /\ UNCHANGED <<originals, clock, tasks, req, aux>>

\* lines 265-281: the thumbnail extraction exited
ThumbsExit(t) ==
    /\ LoopIdle
    /\ workers[t].pc = "thumbs"
    /\ \E out \in Outcomes :
          IF out.rc # 0 THEN Raise(t, CommandError(out.stderr), workers[t].exits)
          ELSE Proceed(t, "keyframes", AfterThumbsFields, workers[t].exits \cup {"thumbs"})
    /\ UNCHANGED <<originals, clock, tasks, req, aux>>

\* lines 281-297: the keyframe probe exited
KeyframesExit(t) ==
    /\ LoopIdle
    /\ workers[t].pc = "keyframes"
    /\ \E out \in Outcomes :
          IF out.rc # 0 THEN Raise(t, CommandError(out.stderr), workers[t].exits)
          ELSE Proceed(t, "done", ReadyFields(workers[t].upload_id),
                       workers[t].exits \cup {"keyframes"})
    /\ UNCHANGED <<originals, clock, tasks, req, aux>>

\* mutant: the handler catches BaseException
IsException_Base(exc) == TRUE
\* isinstance(exc, Exception): what "except Exception" catches
IsException(exc) == exc.kind # "CancelledError"

\* task.cancel(): CancelledError is raised at the await the coroutine is
\* suspended at, inside the try block; a task that has not run yet never
\* enters it
Cancel(t) ==
    /\ LoopIdle
    /\ workers[t].pc \in Awaiting \cup {"start"}
    /\ IF workers[t].pc \in Awaiting /\ IsException(CancelledError)
       THEN Raise(t, CancelledError, workers[t].exits)
       ELSE /\ workers' = [workers EXCEPT ![t] =
                   [@ EXCEPT !.pc = "cancelled", !.exc = Some(CancelledError.kind)]]
            /\ UNCHANGED <<jobs, job_meta, disk, errored>>
    /\ UNCHANGED <<originals, clock, tasks, req, aux>>

----------------------------------------------------------------------------
(* The task registry *)

\* mutant: the done() test is inverted
is_job_running_Inverted(upload_id) ==
    upload_id \in DOMAIN tasks /\ TaskDone(tasks[upload_id])

\* mutant: the done() test is missing
is_job_running_IgnoresDone(upload_id) ==
    upload_id \in DOMAIN tasks

\* is_job_running(upload_id)
is_job_running(upload_id) ==
    upload_id \in DOMAIN tasks /\ ~TaskDone(tasks[upload_id])

\* register_task(upload_id, task): the registry after the call
register_task(upload_id, t) == With(tasks, upload_id, t)

\* _cleanup/_inner of a finished task: the registry after the callback
\* mutant: the callback pops the entry without comparing it with its task
CleanedUp_Always(t) ==
    Without(tasks, workers[t].upload_id)
CleanedUp(t) ==
    LET upload_id == workers[t].upload_id
    IN  IF upload_id \in DOMAIN tasks /\ tasks[upload_id] = t
        THEN Without(tasks, upload_id) ELSE tasks

\* the done callback of a finished task runs; the task object is dropped
Cleanup(t) ==
    /\ LoopIdle
    /\ TaskDone(t)
    /\ workers[t].cleanup
    /\ tasks' = CleanedUp(t)
    /\ workers' = [workers EXCEPT ![t] = FreeSlot]
    /\ UNCHANGED <<jobs, job_meta, disk, originals, clock, req, errored, aux>>

----------------------------------------------------------------------------
(* The start request: ready -> no-op; source file missing -> 404; otherwise *)
(* is_job_running, then create_task(run_ingest(...)) and register_task.     *)
(* The handler awaits only the registry lock, which is never held across a  *)
(* suspension, so it runs to its response without yielding the loop.        *)

FreeTasks == {t \in TaskIds : workers[t].pc = "free"}
NewTask == CHOOSE t \in FreeTasks : \A o \in FreeTasks : t <= o

Respond(upload_id, result) == [upload_id |-> upload_id, pc |-> "respond", result |-> result]

StartRequest(upload_id) ==
    /\ LoopIdle
    /\ FreeTasks # {}
    /\ LET job == get_job(upload_id)
       IN  req' = IF job # None /\ job[1].status = "ready" THEN Respond(upload_id, "ready")
                  ELSE IF ~HasOriginal(upload_id) THEN Respond(upload_id, "not_found")
                  ELSE [upload_id |-> upload_id, pc |-> "check", result |-> ""]
    /\ UNCHANGED <<jobs, job_meta, disk, originals, clock, workers, tasks, errored, aux>>

StartCheck ==
    /\ req.pc = "check"
    /\ req' = IF is_job_running(req.upload_id) THEN Respond(req.upload_id, "running")
              ELSE [req EXCEPT !.pc = "register"]
    /\ UNCHANGED <<jobs, job_meta, disk, originals, clock, workers, tasks, errored, aux>>

StartRegister ==
    /\ req.pc = "register"
    /\ workers' = [workers EXCEPT ![NewTask] =
           [FreeSlot EXCEPT !.upload_id = req.upload_id, !.pc = "start", !.cleanup = TRUE]]
    /\ tasks' = register_task(req.upload_id, NewTask)
    /\ req' = Respond(req.upload_id, "started")
    /\ UNCHANGED <<jobs, job_meta, disk, originals, clock, errored, aux>>

StartRespond ==
    /\ req.pc = "respond"
    /\ req' = NoReq
    /\ UNCHANGED <<jobs, job_meta, disk, originals, clock, workers, tasks, errored, aux>>

\* The process is stopped at any point and started again: every task is gone,
\* the module globals are fresh and load_from_disk() reads the snapshot.
Restart ==
    /\ load_from_disk(EmptyDict, EmptyDict)
    /\ workers' = [t \in TaskIds |-> FreeSlot]
    /\ tasks' = EmptyDict
    /\ req' = NoReq
    /\ UNCHANGED <<originals, clock, errored, aux>>

----------------------------------------------------------------------------

Next ==
    \/ Tick
    \/ \E u \in Ids, e \in Extensions : Upload(u, e)
    \/ \E u \in Ids : StartRequest(u)
    \/ StartCheck
    \/ StartRegister
    \/ StartRespond
    \/ \E t \in TaskIds : Begin(t)
    \/ \E t \in TaskIds : ProbeExit(t)
    \/ \E t \in TaskIds : MezzExit(t)
    \/ \E t \in TaskIds : ProxyExit(t)
    \/ \E t \in TaskIds : ThumbsExit(t)
    \/ \E t \in TaskIds : KeyframesExit(t)
    \/ \E t \in TaskIds : Cancel(t)
    \/ \E t \in TaskIds : Cleanup(t)
    \/ Restart

Spec == Init /\ [][Next]_vars

----------------------------------------------------------------------------
(* run_ingest called by any caller: a task is created for an upload id      *)
(* whatever the state of its job, also for an id the store does not know.   *)

Invoke(upload_id) ==
    /\ FreeTasks # {}
    /\ \A t \in TaskIds : workers[t].upload_id = upload_id => TaskDone(t)
    /\ workers' = [workers EXCEPT ![NewTask] =
           [FreeSlot EXCEPT !.upload_id = upload_id, !.pc = "start", !.cleanup = TRUE]]
    /\ tasks' = register_task(upload_id, NewTask)
    /\ UNCHANGED <<jobs, job_meta, disk, originals, clock, req, errored, aux>>

NextWorker ==
    \/ \E u \in Ids, e \in Extensions : Upload(u, e)
    \/ \E u \in Ids : Invoke(u)
    \/ \E t \in TaskIds : Begin(t)
    \/ \E t \in TaskIds : ProbeExit(t)
    \/ \E t \in TaskIds : MezzExit(t)
    \/ \E t \in TaskIds : ProxyExit(t)
    \/ \E t \in TaskIds : ThumbsExit(t)
    \/ \E t \in TaskIds : KeyframesExit(t)
    \/ \E t \in TaskIds : Cancel(t)
    \/ \E t \in TaskIds : Cleanup(t)

SpecWorker == Init /\ [][NextWorker]_vars

----------------------------------------------------------------------------
(* The store on its own: any caller, any order of its operations *)

AssetValues == {None, Some("/assets/other")}
AssetPatches ==
    {[assets |-> Some(k :> v)] : k \in ASSET_KEYS \cup {"unknown_key"}, v \in AssetValues}
WorkerPatches(upload_id) ==
    {BeginFields, AfterProbeFields, AfterMezzFields(upload_id), AfterProxyFields(upload_id),
     AfterThumbsFields, ReadyFields(upload_id),
     ErrorFields(STAGE_PROGRESS.transcode_mezz, Join(<<"stderr line">>))}

StoreCreate(upload_id, ext) ==
    /\ upload_id \notin DOMAIN jobs
    /\ create_job(upload_id, "/data/original/" \o upload_id \o ext,
                  "/assets/original/" \o upload_id \o ext)
    /\ UNCHANGED <<originals, clock, workers, tasks, req, errored, aux>>

StoreUpdate(upload_id) ==
    /\ \E fields \in AssetPatches \cup WorkerPatches(upload_id) : update_job(upload_id, fields)
    /\ UNCHANGED <<originals, clock, workers, tasks, req, aux>>

StoreReset ==
    /\ reset_state
    /\ UNCHANGED <<originals, clock, workers, tasks, req, errored, aux>>

StoreLoad ==
    /\ load_from_disk(jobs, job_meta)
    /\ UNCHANGED <<originals, clock, workers, tasks, req, errored, aux>>

NextStore ==
    \/ Tick
    \/ \E u \in Ids, e \in Extensions : StoreCreate(u, e)
    \/ \E u \in Ids : StoreUpdate(u)
    \/ StoreReset
    \/ StoreLoad

SpecStore == Init /\ [][NextStore]_vars

----------------------------------------------------------------------------
(* The store as its callers see it: every call with what it returns or      *)
(* raises, on a snapshot file that can also be removed or replaced by       *)
(* content the store did not write.                                         *)

Returned(op, upload_id, ret) == [op |-> op, upload_id |-> upload_id, exc |-> None, ret |-> ret]
Raised(op, upload_id, exc) == [op |-> op, upload_id |-> upload_id, exc |-> Some(exc.kind), ret |-> None]

ApiPatches(upload_id) ==
    {BeginFields, AfterMezzFields(upload_id), ReadyFields(upload_id),
     ErrorFields(STAGE_PROGRESS.transcode_mezz, Join(<<"stderr line">>)),
     [assets |-> Some("original_url" :> None)],
     [assets |-> Some("unknown_key" :> Some("/assets/other"))]}

ForeignFiles(u) ==
    {<<"unreadable", JsonNull>>,
     <<"not_utf8", JsonNull>>,
     <<"not_json", JsonNull>>,
     <<"json", JsonList>>,
     <<"json", Dict(EmptyDict)>>,
     <<"json", Dict([jobs |-> JsonList, meta |-> JsonNull])>>,
     <<"json", Dict([jobs |-> Dict(u :> JsonList), meta |-> Dict(u :> JsonNull)])>>,
     <<"json", Dict([jobs |-> Dict(u :> Dict(EmptyDict)), meta |-> Dict(u :> Dict(EmptyDict))])>>,
     <<"json", Dict([jobs |-> Dict(u :> Dict([assets |-> JsonList])),
                     meta |-> Dict(u :> Dict([original_url |-> "/assets/original/other"]))])>>,
     <<"json", Dict([jobs |-> Dict(u :> Dict([status |-> "ready",
                                               assets |-> Dict([proxy_url |-> Some("/assets/other")])])),
                     meta |-> Dict(u :> Dict([original_url |-> "/assets/original/other"]))])>>}

ApiCreate(upload_id, ext) ==
    /\ create_job(upload_id, "/data/original/" \o upload_id \o ext,
                  "/assets/original/" \o upload_id \o ext)
    /\ call' = Returned("create_job", upload_id, Some(upload_id :> Clone(jobs'[upload_id])))
    /\ UNCHANGED <<homography, conc, originals, clock, workers, tasks, req, errored, persist, upload_store>>

ApiUpdate(upload_id) ==
    /\ IF upload_id \in DOMAIN jobs
       THEN \E fields \in ApiPatches(upload_id) :
               /\ update_job(upload_id, fields)
               /\ call' = Returned("update_job", upload_id,
                                   Some(upload_id :> Clone(jobs'[upload_id])))
       ELSE /\ call' = Raised("update_job", upload_id, KeyError)
            /\ UNCHANGED <<homography, conc, jobs, job_meta, disk, errored>>
    /\ UNCHANGED <<homography, conc, originals, clock, workers, tasks, req, persist, upload_store>>

ApiGet(upload_id) ==
    /\ call' = Returned("get_job", upload_id,
                        IF get_job(upload_id) = None THEN None
                        ELSE Some(upload_id :> Clone(get_job(upload_id)[1])))
    /\ UNCHANGED <<homography, conc, jobs, job_meta, disk, originals, clock, workers, tasks, req, errored,
                   persist, upload_store>>

ApiGetMeta(upload_id) ==
    /\ call' = Returned("get_job_meta", upload_id, get_job_meta(upload_id))
    /\ UNCHANGED <<homography, conc, jobs, job_meta, disk, originals, clock, workers, tasks, req, errored,
                   persist, upload_store>>

\* all_jobs()
ApiAll ==
    /\ call' = Returned("all_jobs", "", Some([u \in DOMAIN jobs |-> Clone(jobs[u])]))
    /\ UNCHANGED <<homography, conc, jobs, job_meta, disk, originals, clock, workers, tasks, req, errored,
                   persist, upload_store>>

ApiReset ==
    /\ reset_state
    /\ call' = Returned("reset_state", "", None)
    /\ UNCHANGED <<homography, conc, originals, clock, workers, tasks, req, errored, persist, upload_store>>

LoadResult(op) ==
    IF LoadException = None THEN Returned(op, "", None)
    ELSE [Returned(op, "", None) EXCEPT !.exc = LoadException]

\* load_from_disk() in a running process (app_lifespan, a caller)
ApiLoad ==
    /\ load_from_disk(jobs, job_meta)
    /\ call' = LoadResult("load_from_disk")
    /\ UNCHANGED <<homography, conc, originals, clock, workers, tasks, req, errored, persist, upload_store>>

\* a new process imports the module: empty maps, then load_from_disk()
ApiRestart ==
    /\ load_from_disk(EmptyDict, EmptyDict)
    /\ call' = LoadResult("import")
    /\ UNCHANGED <<homography, conc, originals, clock, workers, tasks, req, errored, persist, upload_store>>

\* the snapshot file is removed, or replaced by content the store did not write
Damage ==
    /\ \E f \in {None} \cup UNION {ForeignFiles(u) : u \in Ids} : disk' = f
    /\ call' = NoCall
    /\ UNCHANGED <<homography, conc, jobs, job_meta, originals, clock, workers, tasks, req, errored,
                   persist, upload_store>>

\* The caller changes the job it was handed: its status, or an entry of its
\* nested assets. An internal object the returned one shares changes with it.
Mutated(job, what) ==
    IF what = "status" THEN [job EXCEPT !.status = "mutated"]
    ELSE [job EXCEPT !.assets = With(@, "proxy_url", Some("mutated"))]

MutateReturned ==
    /\ call.op \in {"get_job", "create_job", "update_job", "all_jobs"}
    /\ call.ret # None
    /\ \E u \in DOMAIN call.ret[1], what \in {"status", "assets"} :
          LET r == call.ret[1][u]
              shared == r.alias = "job" \/ (r.alias = "assets" /\ what = "assets")
          IN  /\ call' = [call EXCEPT !.op = "mutate",
                              !.ret = Some(With(call.ret[1], u,
                                                [r EXCEPT !.job = Mutated(r.job, what)]))]
              /\ jobs' = IF shared THEN With(jobs, u, Mutated(jobs[u], what)) ELSE jobs
    /\ UNCHANGED <<homography, conc, job_meta, disk, originals, clock, workers, tasks, req, errored,
                   persist, upload_store>>

NextApi ==
    \/ \E u \in Ids, e \in Extensions : ApiCreate(u, e)
    \/ \E u \in Ids : ApiUpdate(u)
    \/ \E u \in Ids : ApiGet(u)
    \/ \E u \in Ids : ApiGetMeta(u)
    \/ ApiAll
    \/ ApiReset
    \/ ApiLoad
    \/ ApiRestart
    \/ Damage
    \/ MutateReturned

SpecApi == Init /\ [][NextApi]_vars

----------------------------------------------------------------------------
(* The routes of routers/ingest.py, with files appearing in and vanishing   *)
(* from ORIGINAL_DIR and the process (and with it _upload_store) restarted. *)

RouterIds == Ids \cup {HEALTH_UPLOAD_ID, "not-a-uuid"}

\* file.filename: None, or a name with its suffix; Path(name).suffix.lower()
Filenames ==
    {None} \cup {Some([stem |-> "clip", suffix |-> x]) : x \in Extensions \cup {".MP4", ".txt", ""}}
Lower(suffix) == IF suffix = ".MP4" THEN ".mp4" ELSE suffix

HTTPException(code) == [kind |-> code, text |-> "", stderr |-> <<>>]

\* POST /ingest/upload; upload_id is the uuid4 drawn when the file is accepted
upload_video(upload_id, filename) ==
    /\ IF filename = None
       THEN /\ call' = Raised("upload_video", "", HTTPException("HTTP_400_BAD_REQUEST"))
            /\ UNCHANGED <<homography, conc, originals, upload_store>>
       ELSE IF Lower(filename[1].suffix) \notin ALLOWED_EXTENSIONS
       THEN /\ call' = Raised("upload_video", "",
                              HTTPException("HTTP_415_UNSUPPORTED_MEDIA_TYPE"))
            /\ UNCHANGED <<homography, conc, originals, upload_store>>
       ELSE LET extension == Lower(filename[1].suffix)
                assets == AssetUrls(upload_id, Some(extension))
            IN  /\ upload_id \notin DOMAIN upload_store
                /\ ~HasOriginal(upload_id)
                /\ originals' = originals \cup {upload_id \o extension}
                /\ upload_store' = With(upload_store, upload_id,
                                        ClonePayload(ReadyPayload(assets)))
                /\ call' = Returned("upload_video", upload_id,
                                    Some([upload_id     |-> Some(upload_id),
                                          original_url  |-> assets.original_url,
                                          proxy_url     |-> assets.proxy_url,
                                          mezzanine_url |-> assets.mezzanine_url]))
    /\ UNCHANGED <<homography, conc, jobs, job_meta, disk, clock, workers, tasks, req, errored, persist>>

\* GET /ingest/status
get_status(upload_id) ==
    /\ upload_store' = ResolvedStore(EnsureHealthSeed(upload_store), upload_id)
    /\ call' = Returned("get_status", upload_id,
                        Some(ResolveStatus(EnsureHealthSeed(upload_store), upload_id)))
    /\ UNCHANGED <<homography, conc, jobs, job_meta, disk, originals, clock, workers, tasks, req, errored,
                   persist>>

\* GET /ingest/health; upload_id: None or <<id>>
get_health(upload_id) ==
    LET seeded == EnsureHealthSeed(upload_store)
    IN  /\ IF Truthy(upload_id)
           THEN /\ upload_store' = ResolvedStore(seeded, upload_id[1])
                /\ call' = Returned("get_health", upload_id[1],
                       Some([ok |-> ResolveStatus(seeded, upload_id[1]).status # "error",
                             module |-> "ingest"]))
           ELSE /\ upload_store' = seeded
                /\ call' = Returned("get_health", "",
                       Some([ok |-> \E u \in DOMAIN seeded : seeded[u].status # "error",
                             module |-> "ingest"]))
        /\ UNCHANGED <<homography, conc, jobs, job_meta, disk, originals, clock, workers, tasks, req, errored,
                       persist>>

\* the process is started again: _upload_store is empty, the files remain
RouterRestart ==
    /\ upload_store' = EmptyDict
    /\ call' = NoCall
    /\ UNCHANGED <<homography, conc, jobs, job_meta, disk, originals, clock, workers, tasks, req, errored,
                   persist>>

\* a file is put into ORIGINAL_DIR or removed from it behind the routes' back
FileNames == {u \o e : u \in RouterIds, e \in Extensions \cup {".txt"}}
PlaceFile(name) ==
    /\ name \notin originals
    /\ originals' = originals \cup {name}
    /\ call' = NoCall
    /\ UNCHANGED <<homography, conc, jobs, job_meta, disk, clock, workers, tasks, req, errored, persist,
                   upload_store>>
RemoveFile(name) ==
    /\ name \in originals
    /\ originals' = originals \ {name}
    /\ call' = NoCall
    /\ UNCHANGED <<homography, conc, jobs, job_meta, disk, clock, workers, tasks, req, errored, persist,
                   upload_store>>

NextRouter ==
    \/ \E u \in Ids, f \in Filenames : upload_video(u, f)
    \/ \E u \in RouterIds : get_status(u)
    \/ \E u \in {None} \cup {Some(x) : x \in RouterIds} : get_health(u)
    \/ RouterRestart
    \/ \E name \in FileNames : PlaceFile(name)
    \/ \E name \in FileNames : RemoveFile(name)

SpecRouter == Init /\ [][NextRouter]_vars

----------------------------------------------------------------------------
(* services/homography.py. Coordinates are integers and the arithmetic is   *)
(* exact: a quotient is kept as numerator and denominator, and a result     *)
(* agrees with an expected value "within tolerance" when it equals it.      *)

Coords == 0..MaxCoord
GridPoints == {<<x, y>> : x \in Coords, y \in Coords}

Collinear(p, q, r) == (q[1] - p[1]) * (r[2] - p[2]) = (q[2] - p[2]) * (r[1] - p[1])
\* no three of the points on one line (so the points are distinct too)
GeneralPosition(pts) ==
    \A i, j, k \in 1..Len(pts) : (i < j /\ j < k) => ~Collinear(pts[i], pts[j], pts[k])

\* the corners of the 18 m x 9 m court template (routers/calibration.py) in
\* units of 9 m, in the order given and in another one, and other quadrilaterals
COURT_TEMPLATE_POINTS == << <<0, 0>>, <<2, 0>>, <<2, 1>>, <<0, 1>> >>
CourtQuads ==
    {COURT_TEMPLATE_POINTS,
     << <<2, 1>>, <<0, 0>>, <<0, 1>>, <<2, 0>> >>,
     << <<0, 0>>, <<2, 0>>, <<3, 2>>, <<0, 1>> >>,
     << <<1, 1>>, <<3, 0>>, <<2, 2>>, <<0, 3>> >>,
     << <<0, 3>>, <<2, 2>>, <<3, 0>>, <<1, 1>> >>,
     << <<-1, 0>>, <<0, 2>>, <<2, 1>>, <<1, -1>> >>}

\* the image points in increasing order: listing the same correspondences in
\* another order only permutes the rows of a_matrix
Before(p, q) == p[1] < q[1] \/ (p[1] = q[1] /\ p[2] < q[2])
ImageQuads ==
    {q \in [1..4 -> GridPoints] :
        GeneralPosition(q) /\ \A i \in 1..3 : Before(q[i], q[i + 1])}

\* point lists that are too short, too long or hold a point that is not 2D
ShortLists == {<<>>, << <<0, 0>> >>, << <<0, 0>>, <<1, 0>>, <<1, 1>> >>}
FivePoints == << <<0, 0>>, <<1, 0>>, <<1, 1>>, <<0, 1>>, <<2, 1>> >>
WithPoint3D == << <<0, 0>>, <<1, 0>>, <<1, 1, 1>>, <<0, 1>> >>
Uniform3D == << <<0, 0, 1>>, <<1, 0, 1>>, <<1, 1, 1>>, <<0, 1, 1>> >>
OtherLists == ShortLists \cup {FivePoints, WithPoint3D, Uniform3D}
UnitSquare == << <<0, 0>>, <<1, 0>>, <<1, 1>>, <<0, 1>> >>

ValueError(text) == [kind |-> "ValueError", text |-> text, stderr |-> <<>>]

\* _validate_points: None, or <<the exception raised>>. np.asarray raises
\* ValueError itself for rows of different lengths.
ValidatePoints(points) ==
    IF Len(points) < 4
    THEN Some(ValueError("At least four points are required to compute a homography"))
    ELSE IF \E i, j \in 1..Len(points) : Len(points[i]) # Len(points[j])
    THEN Some(ValueError("inhomogeneous shape"))
    ELSE IF Len(points[1]) # 2 THEN Some(ValueError("Points must be 2D coordinates"))
    ELSE None

\* the two rows of a_matrix for the correspondence (x, y) -> (u, v)
\* mutant: a sign is wrong in the first row
DltRowX_WrongSign(x, y, u, v) == <<-x, -y, -1, 0, 0, 0, -(u * x), u * y, u>>
DltRowX(x, y, u, v) == <<-x, -y, -1, 0, 0, 0, u * x, u * y, u>>
DltRowY(x, y, u, v) == <<0, 0, 0, -x, -y, -1, v * x, v * y, v>>
AMatrix(src, dst) ==
    [r \in 1..(2 * Len(src)) |->
        LET i == (r + 1) \div 2
        IN  IF r % 2 = 1 THEN DltRowX(src[i][1], src[i][2], dst[i][1], dst[i][2])
            ELSE DltRowY(src[i][1], src[i][2], dst[i][1], dst[i][2])]

\* exact quotient of integers, the divisor of either sign
ExactDiv(a, b) == IF b > 0 THEN a \div b ELSE (-a) \div (-b)

\* an array with every entry computed, once
Array(f) == f @@ <<>>

\* determinant of the n x n integer matrix m by fraction-free elimination
RECURSIVE Eliminate(_, _, _, _, _)
Eliminate(m, n, k, prev, sign) ==
    IF k = n THEN sign * m[n][n]
    ELSE LET rows == {r \in k..n : m[r][k] # 0}
         IN  IF rows = {} THEN 0
             ELSE LET r == CHOOSE x \in rows : \A q \in rows : x <= q
                      sw == [m EXCEPT ![k] = m[r], ![r] = m[k]]
                      nxt == Array([i \in 1..n |-> Array([j \in 1..n |->
                                 IF i > k /\ j > k
                                 THEN ExactDiv(sw[i][j] * sw[k][k] - sw[i][k] * sw[k][j], prev)
                                 ELSE sw[i][j]])])
                  IN  Eliminate(nxt, n, k + 1, sw[k][k], IF r = k THEN sign ELSE -sign)
Det(m, n) == Eliminate(m, n, 1, 1, 1)

\* vh[-1, :] of np.linalg.svd(a) for the 8 x 9 matrix a, up to its length:
\* the vector that spans the null space of a, by cofactors. It is the zero
\* vector exactly when the rank of a is below 8.
NullVector(a) ==
    [c \in 1..9 |->
        LET minor == Array([i \in 1..8 |->
                         Array([j \in 1..8 |-> a[i][IF j < c THEN j ELSE j + 1]])])
        IN  (IF c % 2 = 1 THEN 1 ELSE -1) * Det(minor, 8)]

\* h / h[-1] reshaped to 3 x 3: the entries are num[i][j] / den. With den = 0
\* the code divides by what rounding left of h[-1]: the entries are then not
\* numbers this arithmetic determines.
Normalised(h) ==
    [num |-> [i \in 1..3 |-> [j \in 1..3 |-> h[3 * (i - 1) + j]]], den |-> h[9]]

\* mutant: the lengths of the two lists are not compared
compute_h_NoLengthCheck(image_pts, court_pts) ==
    IF ValidatePoints(image_pts) # None THEN [exc |-> ValidatePoints(image_pts)]
    ELSE IF ValidatePoints(court_pts) # None THEN [exc |-> ValidatePoints(court_pts)]
    ELSE [exc |-> None, matrix |-> Normalised(NullVector(AMatrix(image_pts, court_pts)))]
\* compute_h without cv2: [exc |-> <<exception>>] or [exc |-> None, matrix |-> ...];
\* the lists are of four points when both are valid and of one length
compute_h(image_pts, court_pts) ==
    IF ValidatePoints(image_pts) # None THEN [exc |-> ValidatePoints(image_pts)]
    ELSE IF ValidatePoints(court_pts) # None THEN [exc |-> ValidatePoints(court_pts)]
    ELSE IF Len(image_pts) # Len(court_pts)
    THEN [exc |-> Some(ValueError("Image points and court points must have the same length"))]
    ELSE [exc |-> None, matrix |-> Normalised(NullVector(AMatrix(image_pts, court_pts)))]

\* apply_h: each point as <<x, y>> with x = <<numerator, denominator>>; the
\* product row is (X, Y, W) / den and the division by its third entry gives
\* X / W and Y / W, which is not a number when den or W is 0
apply_h(matrix, points) ==
    [i \in 1..Len(points) |->
        LET row(r) == matrix.num[r][1] * points[i][1] + matrix.num[r][2] * points[i][2]
                         + matrix.num[r][3]
            w == IF matrix.den = 0 THEN 0 ELSE row(3)
        IN  << <<row(1), w>>, <<row(2), w>> >>]

\* a quotient equals an integer
Equals(q, n) == q[2] # 0 /\ q[1] = n * q[2]

HomographyArgs ==
    (ImageQuads \X CourtQuads)
        \cup (OtherLists \X (OtherLists \cup {UnitSquare}))
        \cup ((OtherLists \cup {UnitSquare}) \X OtherLists)

InitHomography ==
    /\ InitProgram
    /\ \E args \in HomographyArgs :
          homography = [pc |-> "args", image_pts |-> args[1], court_pts |-> args[2]]

ComputeH ==
    /\ homography.pc = "args"
    /\ homography' = [pc |-> "computed", image_pts |-> homography.image_pts,
                      court_pts |-> homography.court_pts,
                      result |-> compute_h(homography.image_pts, homography.court_pts)]
    /\ UNCHANGED <<jobs, job_meta, disk, originals, clock, workers, tasks, req, errored,
                   call, persist, upload_store, conc>>

ApplyH ==
    /\ homography.pc = "computed"
    /\ homography.result.exc = None
    /\ homography' = [homography EXCEPT !.pc = "applied"] @@
                     [mapped |-> apply_h(homography.result.matrix, homography.image_pts)]
    /\ UNCHANGED <<jobs, job_meta, disk, originals, clock, workers, tasks, req, errored,
                   call, persist, upload_store, conc>>

NextHomography == ComputeH \/ ApplyH

SpecHomography == InitHomography /\ [][NextHomography]_vars

----------------------------------------------------------------------------
(* The store when the process can be killed: _persist_locked step by step.  *)
(* A mutating operation changes the maps, then dumps them into a temporary  *)
(* file of META_DIR and renames that file over INDEX_PATH.                  *)

Persisting(pc) == [pc |-> pc, tmp |-> None, before |-> disk]

CreateBegins(upload_id, ext) ==
    /\ persist.pc = "idle"
    /\ upload_id \notin DOMAIN jobs
    /\ jobs' = CreateJobs(upload_id, "/assets/original/" \o upload_id \o ext)
    /\ job_meta' = CreateMeta(upload_id, "/data/original/" \o upload_id \o ext,
                              "/assets/original/" \o upload_id \o ext)
    /\ persist' = Persisting("open")
    /\ UNCHANGED <<homography, conc, disk, originals, clock, workers, tasks, req, errored, call, upload_store>>

UpdateBegins(upload_id) ==
    /\ persist.pc = "idle"
    /\ upload_id \in DOMAIN jobs
    /\ \E fields \in WorkerPatches(upload_id) :
          /\ jobs' = With(jobs, upload_id, UpdatedJob(upload_id, fields))
          /\ errored' = IF jobs'[upload_id].status = "error"
                        THEN errored \cup {upload_id} ELSE errored
    /\ persist' = Persisting("open")
    /\ UNCHANGED <<homography, conc, job_meta, disk, originals, clock, workers, tasks, req, call, upload_store>>

ResetBegins ==
    /\ persist.pc = "idle"
    /\ jobs' = EmptyDict
    /\ job_meta' = EmptyDict
    /\ persist' = Persisting("open")
    /\ UNCHANGED <<homography, conc, disk, originals, clock, workers, tasks, req, errored, call, upload_store>>

\* line 69: NamedTemporaryFile(dir=INDEX_PATH.parent, delete=False)
PersistOpen ==
    /\ persist.pc = "open"
    /\ persist' = [persist EXCEPT !.pc = "dump",
                       !.tmp = FileContent(Snapshot(jobs, job_meta), 0)]
    /\ UNCHANGED <<homography, conc, jobs, job_meta, disk, originals, clock, workers, tasks, req, errored,
                   call, upload_store>>

\* lines 70-73: json.dump, flush, fsync; the with block closes the file
PersistDump ==
    /\ persist.pc = "dump"
    /\ LET n == persist.tmp[2].chunks + 1
       IN  persist' = [persist EXCEPT !.tmp = FileContent(Snapshot(jobs, job_meta), n),
                           !.pc = IF n = DumpChunks THEN "close" ELSE "dump"]
    /\ UNCHANGED <<homography, conc, jobs, job_meta, disk, originals, clock, workers, tasks, req, errored,
                   call, upload_store>>

\* mutant: the rename is inside the with block, before the dump
ReplaceReady_BeforeDump(p) == p.pc \in {"dump", "close"}
\* os.replace comes after the with block
ReplaceReady(p) == p.pc = "close"

\* line 74: os.replace(temp_name, INDEX_PATH); the operation returns
PersistReplace ==
    /\ ReplaceReady(persist)
    /\ disk' = persist.tmp
    /\ persist' = NoPersist
    /\ UNCHANGED <<homography, conc, jobs, job_meta, originals, clock, workers, tasks, req, errored,
                   call, upload_store>>

\* The process is killed and started again: the maps are lost and read back
\* from INDEX_PATH; a temporary file left behind is never read.
Kill ==
    /\ load_from_disk(EmptyDict, EmptyDict)
    /\ persist' = NoPersist
    /\ UNCHANGED <<homography, conc, originals, clock, workers, tasks, req, errored, call, upload_store>>

NextCrash ==
    \/ \E u \in Ids, e \in Extensions : CreateBegins(u, e)
    \/ \E u \in Ids : UpdateBegins(u)
    \/ ResetBegins
    \/ PersistOpen
    \/ PersistDump
    \/ PersistReplace
    \/ Kill

SpecCrash == Init /\ [][NextCrash]_vars

----------------------------------------------------------------------------
(* Fairness for the registry's liveness: the event loop runs every ready    *)
(* callback in FIFO order, so a handler that is running reaches its         *)
(* response and a scheduled done-callback runs however many requests come.  *)

\* the clock only feeds the jobs' timestamps, which the registry never reads
NextLive ==
    \/ \E u \in Ids, e \in Extensions : Upload(u, e)
    \/ \E u \in Ids : StartRequest(u)
    \/ StartCheck
    \/ StartRegister
    \/ StartRespond
    \/ \E t \in TaskIds : Begin(t)
    \/ \E t \in TaskIds : ProbeExit(t)
    \/ \E t \in TaskIds : MezzExit(t)
    \/ \E t \in TaskIds : ProxyExit(t)
    \/ \E t \in TaskIds : ThumbsExit(t)
    \/ \E t \in TaskIds : KeyframesExit(t)
    \/ \E t \in TaskIds : Cancel(t)
    \/ \E t \in TaskIds : Cleanup(t)
    \/ Restart

LiveSpec ==
    /\ Init
    /\ [][NextLive]_vars
    /\ WF_vars(StartCheck)
    /\ WF_vars(StartRegister)
    /\ WF_vars(StartRespond)
    /\ \A t \in TaskIds : SF_vars(Cleanup(t))

----------------------------------------------------------------------------
(* Properties *)

Known == DOMAIN jobs
Kept == (DOMAIN jobs) \cap (DOMAIN jobs')
Active(t) == workers[t].pc \in Awaiting \cup {"start"}
ActiveFor(upload_id) == {t \in TaskIds : workers[t].upload_id = upload_id /\ Active(t)}
AllCommands == {"probe", "mezz", "proxy", "thumbs", "keyframes"}

C2_ProgressNeverDecreases ==
    [][\A u \in Kept : u \notin errored' => jobs'[u].progress >= jobs[u].progress]_vars

\* C2 (amended): progress of a job whose status has never been error decreases
\* only on the first update of a new run_ingest invocation, which resets it
\* to 1; within one invocation it never decreases.
C2_ProgressDecreasesOnlyAtRelaunch ==
    [][\A u \in Kept :
          (u \notin errored' /\ jobs'[u].progress < jobs[u].progress)
              => /\ jobs'[u].progress = 1
                 /\ jobs'[u].stage = "validate"
                 /\ \E t \in TaskIds : /\ workers[t].upload_id = u
                                       /\ workers[t].pc = "start"
                                       /\ workers'[t].pc = "probe"]_vars

C2_Witness ==
    \E u \in Known, t \in TaskIds :
        /\ u \notin errored
        /\ workers[t].upload_id = u
        /\ workers[t].pc = "start"
        /\ jobs[u].status = "running"
        /\ jobs[u].progress = STAGE_PROGRESS.make_proxy

StageAt ==
    [probe |-> "validate", mezz |-> "transcode_mezz", proxy |-> "make_proxy",
     thumbs |-> "thumbs", keyframes |-> "thumbs"]
StageAfter ==
    [probe |-> "transcode_mezz", mezz |-> "make_proxy", proxy |-> "thumbs",
     thumbs |-> "thumbs", keyframes |-> "ready"]

C4_StageOrder ==
    [][\A u \in Kept :
          jobs'[u] # jobs[u]
              => \E t \in ActiveFor(u) :
                    \/ /\ workers[t].pc = "start"
                       /\ jobs'[u].stage = "validate"
                    \/ /\ workers[t].pc \in Awaiting
                       /\ jobs[u].stage = StageAt[workers[t].pc]
                       /\ jobs'[u].stage \in {StageAfter[workers[t].pc], "error"}
                       /\ jobs'[u].stage = "error" <=> workers'[t].pc = "failed"]_vars

C4_Witness ==
    \E u \in Known, t \in TaskIds :
        /\ workers[t].upload_id = u
        /\ workers[t].pc = "done"
        /\ jobs[u].stage = "ready"


\* C5: when a stage of run_ingest raises for a job in the store, the job ends
\* with status error, stage error, a non-empty message and the progress the
\* worker had reached (not lower than before), and the task ends with the
\* stage's exception.
C5_FailureIsRecorded ==
    [][\A t \in TaskIds :
          (workers[t].pc \in Awaiting /\ workers'[t].pc = "failed"
              /\ workers[t].upload_id \in Kept)
              => LET u == workers[t].upload_id
                 IN  /\ jobs'[u].status = "error"
                     /\ jobs'[u].stage = "error"
                     /\ Truthy(jobs'[u].message)
                     /\ jobs'[u].progress = workers[t].progress
                     /\ jobs'[u].progress >= jobs[u].progress
                     /\ workers'[t].exc \in {Some("CommandError"), Some("RuntimeError")}]_vars

C5_Witness ==
    \E u \in Known, t \in TaskIds :
        /\ workers[t].upload_id = u
        /\ workers[t].pc = "failed"
        /\ workers[t].exc = Some("CommandError")
        /\ jobs[u].status = "error"
        /\ jobs[u].progress = STAGE_PROGRESS.transcode_mezz

\* C6: in every reachable state of every job, status is error exactly when
\* stage is error, and then the message is a non-empty string.
C6_ErrorStatusStageMessage ==
    \A u \in Known :
        /\ jobs[u].status = "error" <=> jobs[u].stage = "error"
        /\ jobs[u].status = "error" => Truthy(jobs[u].message)

C6_Witness ==
    \E u \in Known :
        /\ jobs[u].status = "error"
        /\ jobs[u].message = Some(CommandError(<<>>).text)

\* C7 (as stated): an asset field that is non-null stays non-null under every
\* later store operation on the job, update_job with any partial asset map
\* included.
C7_AssetsStayNonNull ==
    [][\A u \in Kept : \A k \in ASSET_KEYS :
          jobs[u].assets[k] # None => jobs'[u].assets[k] # None]_vars

\* C8: a ready job has stage ready, progress 100 and its four derived assets;
\* status becomes ready only in the step of a worker whose probe, mezzanine,
\* proxy, thumbnail and keyframe commands have all exited with code 0.
C8_ReadyMeansComplete ==
    /\ [](\A u \in Known :
             jobs[u].status = "ready"
                 => /\ jobs[u].stage = "ready"
                    /\ jobs[u].progress = STAGE_PROGRESS.ready
                    /\ \A k \in ASSET_KEYS \ {"original_url"} : Truthy(jobs[u].assets[k]))
    /\ [][\A u \in Kept :
             (jobs[u].status # "ready" /\ jobs'[u].status = "ready")
                 => \E t \in TaskIds : /\ workers[t].upload_id = u
                                       /\ workers[t].pc = "keyframes"
                                       /\ workers'[t].pc = "done"
                                       /\ workers'[t].exits = AllCommands]_vars

C8_Witness ==
    \E u \in Known, t \in TaskIds :
        /\ workers[t].upload_id = u
        /\ workers[t].exits = AllCommands
        /\ jobs[u].status = "ready"
        /\ jobs[u].assets.keyframes_csv = Some(build_asset_urls(u).keyframes_csv)

\* C9: a finished task stays finished until its object is dropped; a start
\* request that finds no unfinished task for its id goes on to register a
\* fresh one; and the registry entry of a finished task is eventually removed
\* or replaced.
Registered(upload_id, t) == upload_id \in DOMAIN tasks /\ tasks[upload_id] = t

C9_FinishedTaskDeregisters ==
    /\ [][\A t \in TaskIds :
             TaskDone(t) => workers'[t].pc \in Finished \cup {"free"}]_vars
    /\ [][(req.pc = "check" /\ req'.pc \notin {"check", "idle"}
              /\ ActiveFor(req.upload_id) = {})
             => req'.pc = "register"]_vars
    /\ \A u \in Ids : \A t \in TaskIds :
          (TaskDone(t) /\ Registered(u, t)) ~> ~(TaskDone(t) /\ Registered(u, t))

C9_Witness ==
    \E u \in Ids, t \in TaskIds :
        /\ TaskDone(t)
        /\ Registered(u, t)
        /\ req.pc = "register"
        /\ req.upload_id = u

\* C10: whenever the snapshot file exists it holds exactly the in-memory job
\* map and meta map, and while it does not exist both maps are empty.
C10_DiskMirrorsMemory ==
    /\ disk = None => (jobs = EmptyDict /\ job_meta = EmptyDict)
    /\ disk # None => (disk[1].jobs = jobs /\ disk[1].meta = job_meta)

C10_Witness ==
    \E u \in Known :
        /\ jobs[u].assets.proxy_url # None
        /\ jobs[u].status = "error"
        /\ disk # None
        /\ disk[1].jobs[u] = jobs[u]

\* C11: whenever the process is killed during a mutating store operation, the
\* snapshot file is the complete snapshot from before the operation or the
\* complete snapshot of the maps after it; it changes only in the rename.
C11_SnapshotOldOrNew ==
    /\ [](/\ disk = None \/ Complete(disk)
          /\ persist.pc # "idle" => disk = persist.before)
    /\ [][disk' # disk =>
             /\ persist.pc = "close"
             /\ disk' = Some(Snapshot(jobs, job_meta))]_vars

C11_Witness ==
    /\ persist.pc = "dump"
    /\ persist.tmp = FileContent(Snapshot(jobs, job_meta), 1)
    /\ disk # None
    /\ disk = persist.before
    /\ disk # Some(Snapshot(jobs, job_meta))

LoadOps == {"load_from_disk", "import"}
Unusable == {"missing", "ignored"}

C13_LoadNeverRaises ==
    call.op \in LoadOps => call.exc = None

\* C14 (as stated): after load_from_disk returned on a missing or corrupt
\* file the store is empty, whatever the maps held before the call.
C14_EmptyAfterFailedLoad ==
    (call.op \in LoadOps /\ call.exc = None /\ ReadOutcome(disk) \in Unusable)
        => /\ jobs = EmptyDict
           /\ \A u \in Ids : get_job(u) = None /\ get_job_meta(u) = None

\* C14 (amended): load_from_disk on a missing, unreadable or non-JSON file
\* returns without raising and leaves both maps as they were before the call;
\* they are empty when the call is the one of a starting process.
C14_FailedLoadKeepsState ==
    [][(call'.op \in LoadOps /\ ReadOutcome(disk) \in Unusable)
          => /\ call'.exc = None
             /\ call'.op = "load_from_disk" => (jobs' = jobs /\ job_meta' = job_meta)
             /\ call'.op = "import" => (jobs' = EmptyDict /\ job_meta' = EmptyDict)]_vars

C14_Witness ==
    /\ call.op = "load_from_disk"
    /\ call.exc = None
    /\ ReadOutcome(disk) = "ignored"
    /\ jobs # EmptyDict

\* C15: right after create_job(id, path, url), get_job(id) is the queued job
\* with progress 0, no message, no start time, original_url = url and every
\* other asset null, and get_job_meta(id) is the given path and url.
C15_CreatedJobIsQueued ==
    call.op = "create_job" =>
        \E e \in Extensions :
            LET u == call.upload_id
                url == "/assets/original/" \o u \o e
                job == get_job(u)[1]
            IN  /\ get_job(u) # None
                /\ job.upload_id = u
                /\ job.status = "queued"
                /\ job.stage = "queued"
                /\ job.progress = 0
                /\ job.message = None
                /\ job.started_at = None
                /\ job.assets = [original_url  |-> Some(url),
                                 mezzanine_url |-> None,
                                 proxy_url     |-> None,
                                 thumbs_glob   |-> None,
                                 keyframes_csv |-> None]
                /\ call.ret = Some(u :> [job |-> job, alias |-> "none"])
                /\ get_job_meta(u) = Some([original_path |-> "/data/original/" \o u \o e,
                                           original_url  |-> url])

C15_Witness ==
    /\ call.op = "create_job"
    /\ call.upload_id \in errored
    /\ get_job(call.upload_id)[1].status = "queued"

\* C16: update_job on an id that is not in the store raises KeyError and
\* leaves the job map, the meta map and the snapshot file as they were.
C16_UnknownIdChangesNothing ==
    [][(call'.op = "update_job" /\ call'.upload_id \notin DOMAIN jobs)
          => /\ call'.exc = Some("KeyError")
             /\ jobs' = jobs
             /\ job_meta' = job_meta
             /\ disk' = disk]_vars

C16_Witness ==
    /\ call.op = "update_job"
    /\ call.exc = Some("KeyError")
    /\ call.upload_id \in DOMAIN job_meta
    /\ disk # None
    /\ disk # Some(Snapshot(jobs, job_meta))

\* C17: when a caller changes a job it got from get_job, create_job,
\* update_job or all_jobs, or its nested assets, nothing in the store changes:
\* not what get_job returns, not the snapshot file.
C17_ReturnedJobsAreCopies ==
    [][call'.op = "mutate"
          => /\ jobs' = jobs
             /\ job_meta' = job_meta
             /\ disk' = disk
             /\ \A u \in Ids : get_job(u)' = get_job(u)]_vars

C17_Witness ==
    \E u \in Known :
        /\ call.op = "mutate"
        /\ u \in DOMAIN call.ret[1]
        /\ call.ret[1][u].job.assets.proxy_url = Some("mutated")
        /\ jobs[u].assets.proxy_url = Some(build_asset_urls(u).proxy_url)

\* C18: after reset_state, get_job and get_job_meta return None for every id
\* and the snapshot file holds an empty jobs map and an empty meta map.
C18_ResetEmptiesStore ==
    call.op = "reset_state" =>
        /\ \A u \in Ids : get_job(u) = None /\ get_job_meta(u) = None
        /\ disk = Some(Snapshot(EmptyDict, EmptyDict))

C18_Witness ==
    /\ call.op = "reset_state"
    /\ errored # {}
    /\ disk = Some(Snapshot(EmptyDict, EmptyDict))

\* the null assets of a status payload
NoAssets(payload) == \A k \in DOMAIN payload.assets : payload.assets[k] = None
ReferencesOriginal(payload, upload_id) ==
    /\ payload.status = "ready"
    /\ payload.assets.original_url =
           Some("/assets/original/" \o upload_id \o LocateExistingExtension(upload_id)[1])

\* C19 (as stated): a status request returns the stored payload if the id is
\* known; else a ready payload referencing the original file if one with an
\* allowed extension exists; else, for any id, status queued with null assets.
C19_StatusResolution ==
    [][call'.op = "get_status" =>
          LET u == call'.upload_id
              p == call'.ret[1]
              known == EnsureHealthSeed(upload_store)
          IN  IF u \in DOMAIN known THEN p = known[u]
              ELSE IF HasOriginal(u) THEN ReferencesOriginal(p, u)
              ELSE p.status = "queued" /\ NoAssets(p)]_vars

\* C19 (amended): as above, but an unknown id without a file gets status
\* queued only if it is a UUID (or the health id); any other id gets status
\* error, stage error, null assets and the message "Unknown upload_id '<id>'".
C19_StatusResolutionByIdKind ==
    [][call'.op = "get_status" =>
          LET u == call'.upload_id
              p == call'.ret[1]
              known == EnsureHealthSeed(upload_store)
          IN  IF u \in DOMAIN known THEN p = known[u]
              ELSE IF HasOriginal(u) THEN ReferencesOriginal(p, u)
              ELSE IF u \in Ids \cup {HEALTH_UPLOAD_ID}
              THEN p.status = "queued" /\ NoAssets(p) /\ "message" \notin DOMAIN p
              ELSE /\ p.status = "error"
                   /\ p.stage = "error"
                   /\ NoAssets(p)
                   /\ p.message = "Unknown upload_id '" \o u \o "'"]_vars

C19_Witness ==
    /\ call.op = "get_status"
    /\ call.upload_id \notin Ids \cup {HEALTH_UPLOAD_ID}
    /\ call.upload_id \notin DOMAIN upload_store
    /\ call.ret[1].status = "error"
    /\ \E u \in Ids : u \in DOMAIN upload_store /\ ~HasOriginal(u)

\* C20 (as stated): every payload of GET /ingest/status has a non-empty status
\* and an assets map with exactly the keys original_url, proxy_url,
\* mezzanine_url, thumbs_glob and keyframes_csv.
C20_StatusPayloadShape ==
    call.op = "get_status" =>
        /\ call.ret[1].status # ""
        /\ DOMAIN call.ret[1].assets = ASSET_KEYS

\* C21: after a successful upload the stored status of the new id is queued
\* with progress 0, and both it and the response carry the original_url only:
\* proxy_url and mezzanine_url are null.
C21_UploadLeavesJobQueued ==
    (call.op = "upload_video" /\ call.exc = None) =>
        LET stored == upload_store[call.upload_id]
            response == call.ret[1]
        IN  /\ stored.status = "queued"
            /\ stored.progress = 0
            /\ response.original_url # None
            /\ response.proxy_url = None /\ response.mezzanine_url = None
            /\ stored.assets.original_url = response.original_url
            /\ stored.assets.proxy_url = None /\ stored.assets.mezzanine_url = None

\* C22: an upload whose file name has a suffix that, in lower case as the
\* route reads it, is not one of the seven video extensions is rejected with
\* 415 and leaves the upload store and the originals directory as they were.
C22_BadExtensionRejected ==
    [][\A u \in Ids, f \in Filenames :
          (/\ f # None
           /\ Lower(f[1].suffix) \notin
                  {".mp4", ".mov", ".mkv", ".webm", ".avi", ".mts", ".m2ts"}
           /\ upload_video(u, f))
          => /\ call'.op = "upload_video"
             /\ call'.exc = Some("HTTP_415_UNSUPPORTED_MEDIA_TYPE")
             /\ call'.upload_id = "" /\ call'.ret = None
             /\ upload_store' = upload_store
             /\ originals' = originals]_vars

C22_Witness ==
    /\ call.op = "upload_video"
    /\ call.exc = Some("HTTP_415_UNSUPPORTED_MEDIA_TYPE")
    /\ \E u \in Ids : u \in DOMAIN upload_store /\ HasOriginal(u)

\* C23: GET /ingest/health without an upload_id answers {ok: true, module:
\* ingest} whatever the upload store holds, the empty store of a fresh
\* process included.
C23_HealthAlwaysOk ==
    (call.op = "get_health" /\ call.upload_id = "") =>
        call.ret = Some([ok |-> TRUE, module |-> "ingest"])

C23_Witness ==
    /\ call.op = "get_health" /\ call.upload_id = ""
    /\ DOMAIN upload_store = {HEALTH_UPLOAD_ID}

Computed == homography.pc \in {"computed", "applied"}

\* C24: compute_h raises ValueError and returns no matrix whenever one of the
\* point lists has 3 or fewer points or the two lists differ in length.
C24_TooFewOrMismatchedFails ==
    (/\ Computed
     /\ \/ Len(homography.image_pts) <= 3
        \/ Len(homography.court_pts) <= 3
        \/ Len(homography.image_pts) # Len(homography.court_pts))
    => /\ homography.result.exc # None
       /\ homography.result.exc[1].kind = "ValueError"
       /\ "matrix" \notin DOMAIN homography.result

C24_Witness ==
    /\ Computed
    /\ Len(homography.image_pts) = 4 /\ Len(homography.court_pts) = 5
    /\ ValidatePoints(homography.image_pts) = None
    /\ ValidatePoints(homography.court_pts) = None
    /\ homography.result.exc # None

\* four correspondences, no three image points and no three court points on
\* one line
ValidCorrespondences ==
    /\ Len(homography.image_pts) = 4 /\ Len(homography.court_pts) = 4
    /\ ValidatePoints(homography.image_pts) = None
    /\ ValidatePoints(homography.court_pts) = None
    /\ GeneralPosition(homography.image_pts)
    /\ GeneralPosition(homography.court_pts)

\* the null vector has a last entry to divide by: the homography does not send
\* the image origin to infinity
HasNormalForm == homography.result.matrix.den # 0

C26_EndsReadyOrError ==
    [][\A t \in TaskIds :
          (Active(t) /\ workers'[t].pc \in {"done", "failed"}
              /\ workers[t].upload_id \in Kept)
              => LET u == workers[t].upload_id
                 IN  /\ workers'[t].pc = "done" => jobs'[u].status = "ready"
                     /\ workers'[t].pc = "failed" => jobs'[u].status = "error"
                     /\ workers'[t].pc = "done" <=> workers'[t].exc = None]_vars

C26_Witness ==
    \E u \in Known, t \in TaskIds :
        /\ workers[t].upload_id = u
        /\ workers[t].pc = "failed"
        /\ workers[t].exc = Some("RuntimeError")
        /\ jobs[u].status = "error"
        /\ jobs[u].message = Some(NoVideoError.text)

\* the job of the snapshot file
OnDisk(u) == disk[1].jobs[u]

\* C27: while a worker waits for a stage's command, the snapshot file already
\* holds the update that announced the stage: status running, the stage, the
\* progress value of the stage completed before it and the assets of the
\* stages completed so far.
C27_StagePersistedBeforeCommand ==
    \A t \in TaskIds :
        (workers[t].pc \in Awaiting /\ workers[t].upload_id \in Known)
            => LET u == workers[t].upload_id
                   pc == workers[t].pc
               IN  /\ disk # None /\ Complete(disk) /\ u \in DOMAIN disk[1].jobs
                   /\ OnDisk(u).status = "running"
                   /\ OnDisk(u).stage = StageAt[pc]
                   /\ pc = "probe" => OnDisk(u).progress = 1
                   /\ pc = "mezz" => OnDisk(u).progress = STAGE_PROGRESS.validate
                   /\ pc = "proxy" =>
                          /\ OnDisk(u).progress = STAGE_PROGRESS.transcode_mezz
                          /\ Truthy(OnDisk(u).assets.mezzanine_url)
                   /\ pc \in {"thumbs", "keyframes"} =>
                          /\ OnDisk(u).progress >= STAGE_PROGRESS.make_proxy
                          /\ Truthy(OnDisk(u).assets.mezzanine_url)
                          /\ Truthy(OnDisk(u).assets.proxy_url)

C27_Witness ==
    \E u \in Known, t \in TaskIds :
        /\ workers[t].upload_id = u
        /\ workers[t].pc = "thumbs"
        /\ OnDisk(u).stage = "thumbs"
        /\ OnDisk(u).progress = STAGE_PROGRESS.make_proxy
        /\ OnDisk(u).assets.thumbs_glob = None

\* C28: every invocation starts over. Its first step, whatever the job's
\* state, is the update to status running, stage validate, progress 1 and
\* message null, followed by the probe; nothing of an earlier invocation
\* counts as done, and it returns only after all five commands have exited.
C28_BeginsFromValidate ==
    /\ [][\A t \in TaskIds :
             (workers[t].pc = "start" /\ workers'[t].pc \notin {"start", "cancelled"}
                 /\ workers[t].upload_id \in Kept)
                 => LET u == workers[t].upload_id
                    IN  /\ workers'[t].pc = "probe"
                        /\ workers'[t].exits = {}
                        /\ jobs'[u].status = "running"
                        /\ jobs'[u].stage = "validate"
                        /\ jobs'[u].progress = 1
                        /\ jobs'[u].message = None]_vars
    /\ [](\A t \in TaskIds :
             /\ workers[t].pc = "start" => workers[t].exits = {}
             /\ workers[t].pc = "mezz" => workers[t].exits = {"probe"}
             /\ workers[t].pc = "proxy" => workers[t].exits = {"probe", "mezz"}
             /\ workers[t].pc = "thumbs" => workers[t].exits = {"probe", "mezz", "proxy"}
             /\ workers[t].pc = "done" => workers[t].exits = AllCommands)

\* a worker has begun on a job that an earlier invocation had made ready
C28_Witness ==
    \E u \in Known, t \in TaskIds :
        /\ workers[t].upload_id = u
        /\ workers[t].pc = "probe"
        /\ jobs[u].stage = "validate"
        /\ Truthy(jobs[u].assets.keyframes_csv)

\* C29: cancelling a worker that waits for a command writes nothing: jobs,
\* meta and the snapshot file stay as they are, the job still running at the
\* stage and progress of the interrupted step, and the task ends with
\* CancelledError.
C29_CancelWritesNothing ==
    [][\A t \in TaskIds :
          (workers[t].pc \in Awaiting /\ workers'[t].pc \in Finished
              /\ workers'[t].exc = Some("CancelledError"))
              => /\ workers'[t].pc = "cancelled"
                 /\ jobs' = jobs /\ job_meta' = job_meta /\ disk' = disk
                 /\ workers[t].upload_id \in Known =>
                        LET u == workers[t].upload_id
                        IN  /\ jobs'[u].status = "running"
                            /\ jobs'[u].stage = StageAt[workers[t].pc]
                            /\ jobs'[u].progress = workers[t].progress]_vars

C29_Witness ==
    \E u \in Known, t \in TaskIds :
        /\ workers[t].upload_id = u
        /\ workers[t].pc = "cancelled"
        /\ workers[t].exits = {"probe", "mezz"}
        /\ jobs[u].status = "running"
        /\ jobs[u].stage = "make_proxy"

\* C30 (as stated): no persisted job has progress at a stage's value while
\* that stage's asset is null: mezzanine_url is there at progress 60,
\* proxy_url at 80, thumbs_glob and keyframes_csv at 95.
C30_AssetWithStageProgress ==
    (disk # None /\ Complete(disk)) =>
        \A u \in DOMAIN disk[1].jobs :
            /\ OnDisk(u).progress = STAGE_PROGRESS.transcode_mezz
                   => Truthy(OnDisk(u).assets.mezzanine_url)
            /\ OnDisk(u).progress = STAGE_PROGRESS.make_proxy
                   => Truthy(OnDisk(u).assets.proxy_url)
            /\ OnDisk(u).progress = STAGE_PROGRESS.thumbs
                   => /\ Truthy(OnDisk(u).assets.thumbs_glob)
                      /\ Truthy(OnDisk(u).assets.keyframes_csv)

\* C32: an update_job with a partial asset map changes exactly the named keys
\* that are known asset keys and leaves every other key of the stored map as it
\* was; unknown keys are ignored, and an update_job without an assets argument
\* leaves the whole asset map unchanged.
C32_PartialAssetUpdate ==
    [][\A u \in Ids : \A fields \in ApiPatches(u) :
          update_job(u, fields) =>
              LET named == IF "assets" \in DOMAIN fields /\ fields.assets # None
                           THEN DOMAIN fields.assets[1] \cap ASSET_KEYS ELSE {}
              IN  /\ DOMAIN jobs'[u].assets = DOMAIN jobs[u].assets
                  /\ \A k \in DOMAIN jobs[u].assets :
                         jobs'[u].assets[k] = IF k \in named THEN fields.assets[1][k]
                                              ELSE jobs[u].assets[k]]_vars

\* a partial update has been applied to a job that keeps another asset url
C32_Witness ==
    /\ call.op = "update_job" /\ call.exc = None
    /\ \E u \in DOMAIN jobs :
          /\ jobs[u].assets.original_url = None
          /\ jobs[u].assets.proxy_url # None

\* C33: a job's message is non-null only while its status is error; it is null
\* while the job is queued, running or ready, a retry after a failed run
\* included.
C33_MessageOnlyInError ==
    \A u \in DOMAIN jobs :
        /\ jobs[u].message # None => jobs[u].status = "error"
        /\ jobs[u].status \in {"queued", "running", "ready"} => jobs[u].message = None

\* a job that had ended in error is running again
C33_Witness ==
    \E u \in DOMAIN jobs :
        /\ u \in errored
        /\ jobs[u].status = "running"
        /\ jobs[u].message = None

\* C35: when the probe exits 0 but reports no video stream, validation fails:
\* the job goes to status error, the invocation spawns no transcode, thumbnail
\* or keyframe command, and it writes no derived asset url.
C35_NoVideoStreamFails ==
    /\ [][\A t \in TaskIds :
             (workers[t].pc = "probe" /\ workers'[t].pc = "failed"
                 /\ workers'[t].exc = Some(NoVideoError.kind))
                 => LET u == workers[t].upload_id
                    IN  /\ jobs'[u].status = "error"
                        /\ jobs'[u].message = Some(NoVideoError.text)
                        /\ jobs'[u].assets = jobs[u].assets
                        /\ OnDisk(u)' = jobs'[u]
                        /\ workers'[t].exits = {"probe"}]_vars
    /\ [][\A t \in TaskIds :
             workers[t].pc = "failed"
                 => /\ workers'[t].pc \in {"failed", "free"}
                    /\ workers'[t].pc = "failed" => workers'[t].exits = workers[t].exits]_vars

\* an invocation has failed on a probe that found no video stream
C35_Witness ==
    \E t \in TaskIds :
        /\ workers[t].pc = "failed"
        /\ workers[t].exc = Some(NoVideoError.kind)
        /\ workers[t].exits = {"probe"}
        /\ jobs[workers[t].upload_id].status = "error"

\* C36: started_at is null while status and stage are both queued; the first
\* update that moves status or stage off queued sets it to the time of that
\* update; from then on it keeps that value through every later update, the
\* error transition, a retry and a restart.
C36_StartedAtSetOnce ==
    /\ [](\A u \in Known :
             (jobs[u].status = "queued" /\ jobs[u].stage = "queued")
                 => jobs[u].started_at = None)
    /\ [][\A u \in Kept :
             /\ (jobs[u].started_at = None /\ jobs'[u] # jobs[u]
                    /\ (jobs'[u].status # "queued" \/ jobs'[u].stage # "queued"))
                    => jobs'[u].started_at = Some(clock)
             /\ jobs[u].started_at # None
                    => jobs'[u].started_at = jobs[u].started_at]_vars

\* a job that had failed is running again at a later time than its first start
C36_Witness ==
    \E u \in Known :
        /\ u \in errored
        /\ jobs[u].status = "running"
        /\ jobs[u].started_at = Some(0)
        /\ jobs[u].updated_at = Some(1)

\* C38: the cleanup of an older, finished task never removes the registration
\* of a newer task under the same id: the newer task stays registered and
\* is_job_running keeps answering true while it runs.
C38_CleanupKeepsNewerTask ==
    [][\A u \in Ids : \A t, t2 \in TaskIds :
          (/\ t # t2
           /\ workers[t].upload_id = u /\ TaskDone(t)
           /\ workers'[t].pc = "free"
           /\ workers[t2].upload_id = u /\ Active(t2) /\ Registered(u, t2)
           /\ workers'[t2] = workers[t2])
              => /\ u \in DOMAIN tasks' /\ tasks'[u] = t2
                 /\ is_job_running(u)']_vars

\* the older task has been cleaned up while the newer one, started after it
\* in the second slot, is registered and running
C38_Witness ==
    /\ workers[1].pc = "free"
    /\ workers[2].pc \in Awaiting
    /\ Registered(workers[2].upload_id, 2)

\* C39: run_ingest on an id that has no record ends with KeyError before any
\* command is spawned; it creates no record and does not rewrite the snapshot,
\* and since the handler's error update fails as well, no error state is stored.
C39_UnknownIdRaisesKeyError ==
    [][\A t \in TaskIds :
          (/\ workers[t].pc = "start"
           /\ workers'[t].pc \notin {"start", "cancelled"}
           /\ workers[t].upload_id \notin DOMAIN jobs)
              => /\ workers'[t].pc = "failed"
                 /\ workers'[t].exc = Some(KeyError.kind)
                 /\ workers'[t].exits = {}
                 /\ jobs' = jobs /\ job_meta' = job_meta
                 /\ disk' = disk /\ errored' = errored]_vars

\* an invocation on an id without a record has failed
C39_Witness ==
    \E t \in TaskIds :
        /\ workers[t].pc = "failed"
        /\ workers[t].exc = Some(KeyError.kind)
        /\ workers[t].upload_id \notin DOMAIN jobs
        /\ workers[t].upload_id \notin errored

----------------------------------------------------------------------------
(* The store when the snapshot cannot be written: _persist_locked raises    *)
(* OSError (no space, no permission) before os.replace has put a new file   *)
(* in place.  create_job and update_job have changed the maps by then and   *)
(* the exception leaves the with-block without undoing anything.            *)

OSError == [kind |-> "OSError", text |-> "No space left on device", stderr |-> <<>>]

\* create_job whose _persist_locked raises: lines 134-150 have run, 151 raises
CreateFailing(upload_id, ext) ==
    /\ jobs' = CreateJobs(upload_id, "/assets/original/" \o upload_id \o ext)
    /\ job_meta' = CreateMeta(upload_id, "/data/original/" \o upload_id \o ext,
                              "/assets/original/" \o upload_id \o ext)
    /\ disk' = disk
    /\ call' = Raised("create_job", upload_id, OSError)
    /\ UNCHANGED <<homography, conc, originals, clock, workers, tasks, req, errored, persist,
                   upload_store>>

\* update_job whose _persist_locked raises: lines 162-190 have run, 192 raises
UpdateFailing(upload_id) ==
    /\ upload_id \in DOMAIN jobs
    /\ \E fields \in ApiPatches(upload_id) :
          jobs' = With(jobs, upload_id, UpdatedJob(upload_id, fields))
    /\ disk' = disk
    /\ call' = Raised("update_job", upload_id, OSError)
    /\ UNCHANGED <<homography, conc, job_meta, originals, clock, workers, tasks, req, errored,
                   persist, upload_store>>

NextFail ==
    \/ \E u \in Ids, ext \in Extensions : ApiCreate(u, ext)
    \/ \E u \in Ids : ApiUpdate(u)
    \/ \E u \in Ids : ApiGet(u)
    \/ \E u \in Ids, ext \in Extensions : CreateFailing(u, ext)
    \/ \E u \in Ids : UpdateFailing(u)

SpecFail == Init /\ [][NextFail]_vars

\* C40 (as stated): a create_job or update_job whose snapshot write fails
\* leaves the in-memory maps as they were before the call, so that memory and
\* the snapshot on disk do not diverge.
C40_FailedWriteLeavesMemory ==
    [][call'.exc = Some(OSError.kind)
          => /\ jobs' = jobs
             /\ job_meta' = job_meta]_vars

----------------------------------------------------------------------------
(* Two uploads worked on at the same time: one asyncio task per id, their   *)
(* awaits interleaved by the event loop.                                    *)

PairIds == {"u1", "u2"}

\* each of the two uploads is started once
InvokeOnce(upload_id) ==
    /\ \A t \in TaskIds : workers[t].upload_id # upload_id
    /\ Invoke(upload_id)

NextPair ==
    \/ Tick
    \/ \E u \in PairIds, e \in Extensions : Upload(u, e)
    \/ \E u \in PairIds : InvokeOnce(u)
    \/ \E t \in TaskIds : Begin(t)
    \/ \E t \in TaskIds : ProbeExit(t)
    \/ \E t \in TaskIds : MezzExit(t)
    \/ \E t \in TaskIds : ProxyExit(t)
    \/ \E t \in TaskIds : ThumbsExit(t)
    \/ \E t \in TaskIds : KeyframesExit(t)

SpecPair == Init /\ [][NextPair]_vars

\* the step changes the record or the meta of the id, or a task working on it
Touched(u) ==
    \/ GetSome(jobs', u) # GetSome(jobs, u)
    \/ GetSome(job_meta', u) # GetSome(job_meta, u)
    \/ \E t \in TaskIds : workers'[t].upload_id = u /\ workers'[t] # workers[t]

\* C37: an operation or a worker failure for one id leaves the record, the
\* meta and the task of every other id unchanged; of two jobs worked on at the
\* same time, one ending in error changes nothing of the other.
C37_JobsIndependent ==
    [][\A u \in PairIds : \A o \in PairIds \ {u} :
          Touched(u)
              => /\ GetSome(jobs', o) = GetSome(jobs, o)
                 /\ GetSome(job_meta', o) = GetSome(job_meta, o)
                 /\ \A t \in TaskIds :
                        workers[t].upload_id = o => workers'[t] = workers[t]]_vars

\* both jobs started at time 0; at time 1 one has ended in error and the
\* other has become ready
C37_Witness ==
    /\ PairIds \subseteq DOMAIN jobs
    /\ jobs["u1"].status = "error" /\ jobs["u2"].status = "ready"
    /\ jobs["u1"].started_at = Some(0) /\ jobs["u1"].updated_at = Some(1)
    /\ jobs["u2"].started_at = Some(0) /\ jobs["u2"].updated_at = Some(1)

----------------------------------------------------------------------------
(* The store called from several threads (request handlers run in the       *)
(* server's thread pool, the worker on the event loop).  Every operation    *)
(* is "with _lock:" around its statements; the statements are separate      *)
(* steps here, and a thread that finds the lock held waits.  serial is what *)
(* the store, the file and the caller would get had the call run at once    *)
(* when it took the lock.                                                   *)

LockPatches(upload_id) ==
    {BeginFields, ReadyFields(upload_id),
     ErrorFields(STAGE_PROGRESS.transcode_mezz, Join(<<"stderr line">>))}

\* a thread calls create_job, update_job or get_job
ThreadCall(th) ==
    /\ threads[th].pc = "idle"
    /\ \E u \in Ids :
          \/ threads' = [threads EXCEPT ![th] =
                 [IdleThread EXCEPT !.pc = "wait", !.op = "create_job", !.upload_id = u]]
          \/ threads' = [threads EXCEPT ![th] =
                 [IdleThread EXCEPT !.pc = "wait", !.op = "get_job", !.upload_id = u]]
          \/ \E fields \in LockPatches(u) :
                threads' = [threads EXCEPT ![th] =
                    [IdleThread EXCEPT !.pc = "wait", !.op = "update_job", !.upload_id = u,
                                       !.fields = fields]]
    /\ UNCHANGED <<jobs, job_meta, disk, originals, clock, workers, tasks, req, errored,
                   call, persist, upload_store, homography, lock, serial, proc>>

\* the call run at once on the present store: the maps, the file and the outcome
AtOnce(w) ==
    LET u    == w.upload_id
        path == "/data/original/" \o u \o ".mp4"
        url  == "/assets/original/" \o u \o ".mp4"
    IN  IF w.op = "create_job"
        THEN [jobs     |-> CreateJobs(u, url),
              job_meta |-> CreateMeta(u, path, url),
              disk     |-> PersistLocked(CreateJobs(u, url), CreateMeta(u, path, url)),
              expect   |-> Returned(w.op, u, Some(u :> Clone(NewJob(u, url))))]
        ELSE IF w.op = "update_job" /\ u \in DOMAIN jobs
        THEN [jobs     |-> With(jobs, u, UpdatedJob(u, w.fields)),
              job_meta |-> job_meta,
              disk     |-> PersistLocked(With(jobs, u, UpdatedJob(u, w.fields)), job_meta),
              expect   |-> Returned(w.op, u, Some(u :> Clone(UpdatedJob(u, w.fields))))]
        ELSE IF w.op = "update_job"
        THEN [jobs |-> jobs, job_meta |-> job_meta, disk |-> disk,
              expect |-> Raised(w.op, u, KeyError)]
        ELSE [jobs |-> jobs, job_meta |-> job_meta, disk |-> disk,
              expect |-> Returned(w.op, u, IF get_job(u) = None THEN None
                                           ELSE Some(u :> Clone(get_job(u)[1])))]

\* the first statement after "with _lock:" of each operation
FirstStep == [create_job |-> "insert", update_job |-> "check", get_job |-> "read"]

\* mutant: the lock is taken without waiting for it to be free
Acquire_NoWait(th) ==
    /\ threads[th].pc = "wait"
    /\ lock' = th
    /\ threads' = [threads EXCEPT ![th] =
           [threads[th] EXCEPT !.pc = FirstStep[threads[th].op],
                               !.expect = AtOnce(threads[th]).expect]]
    /\ serial' = [jobs |-> AtOnce(threads[th]).jobs,
                  job_meta |-> AtOnce(threads[th]).job_meta,
                  disk |-> AtOnce(threads[th]).disk]
    /\ UNCHANGED <<jobs, job_meta, disk, originals, clock, workers, tasks, req, errored,
                   call, persist, upload_store, homography, proc>>
\* with _lock: the thread enters when no thread holds the lock
Acquire(th) ==
    /\ threads[th].pc = "wait"
    /\ lock = 0
    /\ lock' = th
    /\ threads' = [threads EXCEPT ![th] =
           [threads[th] EXCEPT !.pc = FirstStep[threads[th].op],
                               !.expect = AtOnce(threads[th]).expect]]
    /\ serial' = [jobs |-> AtOnce(threads[th]).jobs,
                  job_meta |-> AtOnce(threads[th]).job_meta,
                  disk |-> AtOnce(threads[th]).disk]
    /\ UNCHANGED <<jobs, job_meta, disk, originals, clock, workers, tasks, req, errored,
                   call, persist, upload_store, homography, proc>>

\* the thread moves to its next statement
Goto(th, pc) == threads' = [threads EXCEPT ![th].pc = pc]

\* the with-block is left, by return or by an exception: the lock is free
Leave(th, outcome) ==
    /\ call' = outcome
    /\ lock' = 0
    /\ threads' = [threads EXCEPT ![th] = IdleThread]

\* create_job, line 146: _jobs[upload_id] = job
StepCreateJob(th) ==
    /\ threads[th].pc = "insert"
    /\ jobs' = With(jobs, threads[th].upload_id,
                    NewJob(threads[th].upload_id,
                           "/assets/original/" \o threads[th].upload_id \o ".mp4"))
    /\ Goto(th, "meta")
    /\ UNCHANGED <<job_meta, disk, originals, clock, workers, tasks, req, errored,
                   call, persist, upload_store, homography, lock, serial, proc>>

\* create_job, lines 147-150: _job_meta[upload_id] = {...}
StepCreateMeta(th) ==
    /\ threads[th].pc = "meta"
    /\ job_meta' = With(job_meta, threads[th].upload_id,
           [original_path |-> "/data/original/" \o threads[th].upload_id \o ".mp4",
            original_url  |-> "/assets/original/" \o threads[th].upload_id \o ".mp4"])
    /\ Goto(th, "persist")
    /\ UNCHANGED <<jobs, disk, originals, clock, workers, tasks, req, errored,
                   call, persist, upload_store, homography, lock, serial, proc>>

\* update_job, lines 159-160: an unknown id raises KeyError
StepUpdateCheck(th) ==
    /\ threads[th].pc = "check"
    /\ IF threads[th].upload_id \in DOMAIN jobs
       THEN Goto(th, "fields") /\ UNCHANGED <<call, lock>>
       ELSE Leave(th, Raised("update_job", threads[th].upload_id, KeyError))
    /\ UNCHANGED <<jobs, job_meta, disk, originals, clock, workers, tasks, req, errored,
                   persist, upload_store, homography, serial, proc>>

\* update_job, lines 162-172: message and the other plain fields are assigned
StepUpdateFields(th) ==
    LET w == threads[th]
    IN  /\ w.pc = "fields"
        /\ w.upload_id \in DOMAIN jobs
        /\ jobs' = With(jobs, w.upload_id,
               Merge(jobs[w.upload_id], [k \in (DOMAIN w.fields) \ {"assets"} |-> w.fields[k]]))
        /\ Goto(th, "assets")
        /\ UNCHANGED <<job_meta, disk, originals, clock, workers, tasks, req, errored,
                       call, persist, upload_store, homography, lock, serial, proc>>

\* update_job, lines 174-181: the asset map is normalised and merged
StepUpdateAssets(th) ==
    LET w == threads[th]
    IN  /\ w.pc = "assets"
        /\ w.upload_id \in DOMAIN jobs
        /\ jobs' = With(jobs, w.upload_id,
               [jobs[w.upload_id] EXCEPT
                   !.assets = UpdatedAssets(w.upload_id, jobs[w.upload_id], w.fields)])
        /\ Goto(th, "stamp")
        /\ UNCHANGED <<job_meta, disk, originals, clock, workers, tasks, req, errored,
                       call, persist, upload_store, homography, lock, serial, proc>>

\* update_job, lines 183-190: started_at and updated_at
Stamped(job) ==
    LET moved == (job.status # "" /\ job.status # "queued")
                 \/ (job.stage # "" /\ job.stage # "queued")
        j     == IF job.started_at = None /\ moved
                 THEN [job EXCEPT !.started_at = Now] ELSE job
    IN  [j EXCEPT !.updated_at = Now]

StepUpdateStamp(th) ==
    LET w == threads[th]
    IN  /\ w.pc = "stamp"
        /\ w.upload_id \in DOMAIN jobs
        /\ jobs' = With(jobs, w.upload_id, Stamped(jobs[w.upload_id]))
        /\ Goto(th, "persist")
        /\ UNCHANGED <<job_meta, disk, originals, clock, workers, tasks, req, errored,
                       call, persist, upload_store, homography, lock, serial, proc>>

\* _persist_locked() of create_job (151) and update_job (192)
StepPersist(th) ==
    /\ threads[th].pc = "persist"
    /\ disk' = PersistLocked(jobs, job_meta)
    /\ Goto(th, "return")
    /\ UNCHANGED <<jobs, job_meta, originals, clock, workers, tasks, req, errored,
                   call, persist, upload_store, homography, lock, serial, proc>>

\* return _clone(job) of create_job (152) and update_job (194)
StepReturn(th) ==
    LET w == threads[th]
    IN  /\ w.pc = "return"
        /\ w.upload_id \in DOMAIN jobs
        /\ Leave(th, Returned(w.op, w.upload_id, Some(w.upload_id :> Clone(jobs[w.upload_id]))))
        /\ UNCHANGED <<jobs, job_meta, disk, originals, clock, workers, tasks, req, errored,
                       persist, upload_store, homography, serial, proc>>

\* get_job, lines 200-204: the record is looked up and copied
StepGet(th) ==
    LET u == threads[th].upload_id
    IN  /\ threads[th].pc = "read"
        /\ Leave(th, Returned("get_job", u, IF get_job(u) = None THEN None
                                            ELSE Some(u :> Clone(get_job(u)[1]))))
        /\ UNCHANGED <<jobs, job_meta, disk, originals, clock, workers, tasks, req, errored,
                       persist, upload_store, homography, serial, proc>>

NextLock ==
    \/ \E th \in Threads : ThreadCall(th)
    \/ \E th \in Threads : Acquire(th)
    \/ \E th \in Threads : StepCreateJob(th)
    \/ \E th \in Threads : StepCreateMeta(th)
    \/ \E th \in Threads : StepUpdateCheck(th)
    \/ \E th \in Threads : StepUpdateFields(th)
    \/ \E th \in Threads : StepUpdateAssets(th)
    \/ \E th \in Threads : StepUpdateStamp(th)
    \/ \E th \in Threads : StepPersist(th)
    \/ \E th \in Threads : StepReturn(th)
    \/ \E th \in Threads : StepGet(th)

SpecLock == Init /\ [][NextLock]_vars

\* C31: whatever the interleaving of concurrent store calls, the outcome is
\* that of the calls run one at a time in the order they took the lock: when
\* no call is in progress the maps and the snapshot file are what the serial
\* run leaves (no update is lost, the file holds the effect of every completed
\* create_job and update_job), and every call, get_job included, returns what
\* it returns in the serial run, never a half-applied update.
C31_Serializable ==
    /\ [](lock = 0 => /\ jobs = serial.jobs
                      /\ job_meta = serial.job_meta
                      /\ disk = serial.disk)
    /\ [][\A th \in Threads :
             (threads[th].pc \notin {"idle", "wait"} /\ threads'[th].pc = "idle")
                 => call' = threads[th].expect]_vars

\* a thread holds the lock with its update half applied (status ready, the
\* assets not merged yet) while another thread waits to read the job
C31_Witness ==
    \E a, b \in Threads :
        /\ lock = a /\ threads[a].pc = "assets"
        /\ jobs[threads[a].upload_id].status = "ready"
        /\ jobs[threads[a].upload_id].assets.keyframes_csv = None
        /\ threads[b].pc = "wait" /\ threads[b].op = "get_job"

----------------------------------------------------------------------------
(* _run_command: the subprocess, the two drain tasks and the coroutine that *)
(* waits for them.  The process writes its stderr lines into the pipe and   *)
(* exits; the drain reads them one by one, before or after the exit.        *)

\* deque(maxlen=40)
TailMax == 40

Commands == {<<"ffprobe", "-show_streams", "in.mp4">>}

\* what the process writes on stderr: every line is text, or the second line
\* is empty, or every other line is blanks and the rest ends in a blank
Patterns == {"text", "empty", "blanks"}
RawLine(p, i) ==
    [no  |-> i,
     raw |-> IF p = "text" THEN "msg"
             ELSE IF p = "empty" THEN (IF i = 2 THEN "" ELSE "msg")
             ELSE (IF i % 2 = 0 THEN "  " ELSE "msg ")]
StderrOutputs == {[i \in 1..n |-> RawLine(p, i)] : n \in 0..MaxLines, p \in Patterns}

\* line.decode(errors="replace").rstrip(), the newline taken off already
Rstrip(raw) == IF raw = "  " THEN "" ELSE IF raw = "msg " THEN "msg" ELSE raw
Text(line) == [no |-> line.no, text |-> Rstrip(line.raw)]

\* mutant: a full deque refuses the new line instead of dropping its oldest
DequeAppend_KeepsOldest(tail, x) ==
    IF Len(tail) < TailMax THEN Append(tail, x) ELSE tail
\* tail.append(text) on deque(maxlen=TailMax)
DequeAppend(tail, x) ==
    IF Len(tail) < TailMax THEN Append(tail, x) ELSE Append(Tail(tail), x)

\* lines 84-94: the process is created and the drain tasks are started
Spawn ==
    /\ proc.pc = "none"
    /\ \E command \in Commands, capture \in BOOLEAN, rc \in {0, 1}, input \in StderrOutputs :
          proc' = [pc |-> "wait", command |-> command, capture_stdout |-> capture,
                   rc |-> rc, exited |-> FALSE, input |-> input, read |-> 0,
                   tail |-> <<>>, stderr_task |-> "running", stderr_lines |-> <<>>,
                   stdout_task |-> IF capture THEN "running" ELSE "none",
                   error |-> None, returned |-> None]
    /\ UNCHANGED <<jobs, job_meta, disk, originals, clock, workers, tasks, req, errored,
                   call, persist, upload_store, homography, lock, threads, serial>>

\* the process exits with its return code
ProcExit ==
    /\ proc.pc # "none"
    /\ ~proc.exited
    /\ proc' = [proc EXCEPT !.exited = TRUE]
    /\ UNCHANGED <<jobs, job_meta, disk, originals, clock, workers, tasks, req, errored,
                   call, persist, upload_store, homography, lock, threads, serial>>

\* _drain_stderr, lines 55-61: one line is read; text that is not empty is kept
ReadLine ==
    /\ proc.pc # "none"
    /\ proc.stderr_task = "running"
    /\ proc.read < Len(proc.input)
    /\ LET line == Text(proc.input[proc.read + 1])
       IN  proc' = [proc EXCEPT !.read = proc.read + 1,
                                !.tail = IF line.text # "" THEN DequeAppend(proc.tail, line)
                                         ELSE proc.tail]
    /\ UNCHANGED <<jobs, job_meta, disk, originals, clock, workers, tasks, req, errored,
                   call, persist, upload_store, homography, lock, threads, serial>>

\* _drain_stderr, lines 56-58 and 62: end of file, the task returns list(tail)
ReadEOF ==
    /\ proc.pc # "none"
    /\ proc.stderr_task = "running"
    /\ proc.read = Len(proc.input)
    /\ proc' = [proc EXCEPT !.stderr_task = "done", !.stderr_lines = proc.tail]
    /\ UNCHANGED <<jobs, job_meta, disk, originals, clock, workers, tasks, req, errored,
                   call, persist, upload_store, homography, lock, threads, serial>>

\* _drain_stdout: the task has read stdout to its end
DrainStdout ==
    /\ proc.pc # "none"
    /\ proc.stdout_task = "running"
    /\ proc' = [proc EXCEPT !.stdout_task = "done"]
    /\ UNCHANGED <<jobs, job_meta, disk, originals, clock, workers, tasks, req, errored,
                   call, persist, upload_store, homography, lock, threads, serial>>

\* line 96: returncode = await process.wait()
WaitReturns ==
    /\ proc.pc = "wait"
    /\ proc.exited
    /\ proc' = [proc EXCEPT !.pc = "stderr"]
    /\ UNCHANGED <<jobs, job_meta, disk, originals, clock, workers, tasks, req, errored,
                   call, persist, upload_store, homography, lock, threads, serial>>

\* line 97: stderr_lines = await stderr_task
AwaitStderr ==
    /\ proc.pc = "stderr"
    /\ proc.stderr_task = "done"
    /\ proc' = [proc EXCEPT !.pc = "stdout"]
    /\ UNCHANGED <<jobs, job_meta, disk, originals, clock, workers, tasks, req, errored,
                   call, persist, upload_store, homography, lock, threads, serial>>

\* lines 98-103: stdout is awaited if it is captured; then raise or return
Finish ==
    /\ proc.pc = "stdout"
    /\ proc.stdout_task \in {"none", "done"}
    /\ proc' = IF proc.rc # 0
               THEN [proc EXCEPT !.pc = "raised",
                                 !.error = Some([kind       |-> "CommandError",
                                                 command    |-> proc.command,
                                                 returncode |-> proc.rc,
                                                 stderr     |-> proc.stderr_lines])]
               ELSE [proc EXCEPT !.pc = "returned",
                                 !.returned = Some(IF proc.capture_stdout THEN "stdout bytes"
                                                   ELSE "")]
    /\ UNCHANGED <<jobs, job_meta, disk, originals, clock, workers, tasks, req, errored,
                   call, persist, upload_store, homography, lock, threads, serial>>

NextCommand ==
    \/ Spawn
    \/ ProcExit
    \/ ReadLine
    \/ ReadEOF
    \/ DrainStdout
    \/ WaitReturns
    \/ AwaitStderr
    \/ Finish

SpecCommand == Init /\ [][NextCommand]_vars

\* the texts of the lines that are not empty once stripped, in the order written
NonEmptyTexts(input) ==
    SelectSeq([i \in 1..Len(input) |-> Text(input[i])], LAMBDA l : l.text # "")

\* C34: _run_command raises CommandError exactly when the exit code is not 0,
\* and only once the process has exited, the stderr drain has finished and,
\* if stdout is captured, the stdout drain has finished; the error carries the
\* command, the exit code and the last TailMax non-empty stderr lines (all of
\* them if there are fewer) in the order they were written.
C34_CommandErrorAfterDrain ==
    [][(proc.pc = "stdout" /\ proc'.pc \in {"raised", "returned"})
          => /\ (proc'.pc = "raised") <=> (proc.rc # 0)
             /\ proc.exited
             /\ proc.read = Len(proc.input) /\ proc.stderr_task = "done"
             /\ proc.capture_stdout => proc.stdout_task = "done"
             /\ proc'.pc = "raised"
                    => /\ proc'.error[1].command = proc.command
                       /\ proc'.error[1].returncode = proc.rc
                       /\ proc'.error[1].stderr = Last(NonEmptyTexts(proc.input), TailMax)
             /\ proc'.pc = "returned" => proc'.error = None]_vars

\* a command that captured stdout has failed after writing more non-empty
\* lines than the tail holds, an empty one among them
C34_Witness ==
    /\ proc.pc = "raised"
    /\ proc.capture_stdout
    /\ Len(proc.error[1].stderr) = TailMax
    /\ Len(NonEmptyTexts(proc.input)) > TailMax
    /\ \E i \in 1..Len(proc.input) : proc.input[i].raw = ""

====
